---------------------------- MODULE Spec2Model ----------------------------
(***************************************************************************)
(* Model of the campaign list pipeline of routes/hubspotRoute.js:          *)
(*   progressiveChunks, getContactsFromList, addContactsToList,            *)
(*   processSingleCampaign and processCampaignsWithDelay.                  *)
(*                                                                         *)
(* The file holds several specifications over one set of variables:        *)
(*   SpecChunks   progressiveChunks applied to arrays [1..n]               *)
(*   SpecFetch    one call of getContactsFromList, page by page            *)
(*   SpecUpload   one call of addContactsToList, request by request        *)
(*   SpecAlloc    the selection and fulfilment arithmetic of               *)
(*                processSingleCampaign on given fetch results             *)
(*   SpecRun      processCampaignsWithDelay over a list of configs         *)
(*   SpecSources  the fetches and the selection of one invocation of       *)
(*                processSingleCampaign, in both copies of the file        *)
(* A specification leaves the variables of the other components at their   *)
(* initial values.                                                         *)
(***************************************************************************)
EXTENDS Integers, Sequences, FiniteSets, Bags, TLC

VARIABLES
    \* ---- progressiveChunks (SpecChunks)
    arr,                \* the input array
    chunked,            \* the returned array of chunks
    cpc,                \* "input" | "done"
    \* ---- the remote list API (environment of getContactsFromList)
    remote,             \* list id -> the sequence of vids the API pages through
    \* ---- getContactsFromList
    fListId,            \* argument listId
    maxCount,           \* argument maxCount
    allContacts,        \* local allContacts
    hasMore,            \* local hasMore
    offset,             \* local offset (the vidOffset cursor)
    consecutiveErrors,  \* local consecutiveErrors
    totalAttempts,      \* local totalAttempts
    fpc,                \* "idle" | "loop" | "returned" | "thrown"
    fetchResult,        \* the returned uniqueContacts
    fetchError,         \* the thrown Error
    okPages,            \* history: successful page responses of this call
    requestLog,         \* history: count, vidOffset and outcome of every request
    \* ---- the remote lists contacts are added to
    listMembers,        \* list id -> the set of vids the API accepted for it
    \* ---- addContactsToList
    uListId,            \* argument listId
    uContacts,          \* argument contacts
    chunks,             \* local chunks
    chunkIndex,         \* index of the chunk the for loop is at (from 0)
    retries,            \* local retries
    successCount,       \* local successCount
    failedChunks,       \* local failedChunks
    upc,                \* "idle" | "loop" | "wait" | "returned" | "thrown"
    uploadResult,       \* the value the call returned
    attempted,          \* history: indexes of the chunks sent at least once
    accepted,           \* history: indexes of the chunks the API accepted
    addRequests,        \* history: chunk index and outcome of every request
    \* ---- processCampaignsWithDelay
    listConfigs,        \* argument listConfigs
    index,              \* index of the config the for loop is at (from 0)
    usedContacts,       \* the Set usedContacts of the run
    results,            \* local results
    rpc,                \* position of the run inside the current campaign
    \* ---- processSingleCampaign
    primaryContacts,    \* local primaryContacts
    secondaryContacts,  \* local secondaryContacts
    primaryBeforeFilter,
    secondaryBeforeFilter,
    selectedContacts,   \* local selectedContacts
    fulfillmentPercentage,
    newList,            \* listId of the list createHubSpotList returned
    createdLists,       \* the CreatedList collection (audit store)
    propertiesUpdated,  \* vids whose properties the batch update has set
    selections,         \* history: selectedContacts of every campaign so far
    faults,             \* history: requests of the run that have failed
    \* ---- processSingleCampaign, second copy (hubspotRoute.js 946-1017)
    createState,        \* createHubSpotList: "idle" | "pending" | "ok" | "failed"
    effects,            \* history: the side effects the invocation has begun
    \* ---- the pacing of processCampaignsWithDelay (SpecDelay)
    now,                \* the clock Date.now() reads
    startTime,          \* local startTime
    delay,              \* the delay the pending setTimeout was given
    starts,             \* history: the clock at the start of every campaign
    ends,               \* history: the clock at the outcome of every campaign
    \* ---- the destination name of EmailCloner (SpecName)
    nameArgs,           \* originalEmailName, day, strategy, options and slot
    newEmailName,       \* the name computed, or NoName
    scheduled,          \* hour and minute computed for the email, or NoName
    \* ---- EmailCloner (part_000 308-560) and its collaborators
    emailIds,           \* parameter emailIds
    cloningCount,       \* parameter cloningCount
    emailInfoMap,       \* local emailInfoMap: email id -> name
    stats,              \* local stats
    emailNamesToCheck,  \* local emailNamesToCheck
    emailScheduleMap,   \* local emailScheduleMap: name -> schedule
    store,              \* clonedEmailName of the ClonedEmail documents
    remoteNames,        \* names of the emails the remote API holds
    dbDuplicateNames,   \* local dbDuplicateNames
    hubspotDuplicates,  \* local hubspotDuplicates: name -> exists
    processedEmailsCache,
    emailsToProcess,    \* local emailsToProcess
    ei,                 \* the variable of the loop in progress
    pending,            \* indexes of the batch whose call is in flight
    stage,              \* the request each call in flight awaits
    batchResults,       \* index of the batch -> result of its clone
    cloneCalls,         \* history: newEmailName of every clone begun
    epc,                \* position of EmailCloner
    cloneFaults,        \* history: requests of the run that have failed
    remoteClones,       \* history: the bag of the clones made at HubSpot
    lookups,            \* indexes of emailNamesToCheck whose lookup is in flight
    lookupLog,          \* history: index -> "ok" | "failed" of the lookups answered
    served,             \* history: the runs POST /clone-emails has ended
    reqs,               \* the POST /clone-emails requests being served together
    \* ---- updateContactProperties (hubspotRoute.js 213-246) on its own
    contactIds,         \* parameter contactIds
    propIndex,          \* chunks of the for loop that are done
    propRequests,       \* history: chunk and outcome of every batch request
    ppc,                \* "idle" | "loop" | "returned"
    \* ---- EmailCloner of src/routes/cloner.js (272-361)
    undated,            \* remote API: ids of the emails named without a date
    \* ---- DELETE /cloned-emails/:id (part_000 779-839, cloner.js 441-501)
    auditRecords,       \* ClonedEmail collection: record id -> clonedEmailId
    hubspotEmails,      \* remote API: ids of the emails that exist
    delReq,             \* the request being served: its id, locals and place
    delLog              \* history: the operations of the requests so far

vars == << arr, chunked, cpc, remote, fListId, maxCount, allContacts, hasMore,
           offset, consecutiveErrors, totalAttempts, fpc, fetchResult,
           fetchError, okPages, requestLog, listMembers, uListId, uContacts,
           chunks, chunkIndex, retries, successCount, failedChunks, upc,
           uploadResult, attempted, accepted, addRequests, listConfigs, index,
           usedContacts, results, rpc, primaryContacts, secondaryContacts,
           primaryBeforeFilter, secondaryBeforeFilter, selectedContacts,
           fulfillmentPercentage, newList, createdLists, propertiesUpdated,
           selections, faults, createState, effects, now, startTime, delay,
           starts, ends, nameArgs, newEmailName, scheduled, emailIds, cloningCount,
           emailInfoMap, stats, emailNamesToCheck, emailScheduleMap, store,
           remoteNames, dbDuplicateNames, hubspotDuplicates,
           processedEmailsCache, emailsToProcess, ei, pending, stage, batchResults,
           cloneCalls, epc, cloneFaults, remoteClones, lookups, lookupLog,
           served, reqs, contactIds, propIndex, propRequests,
           ppc, undated, auditRecords, hubspotEmails, delReq,
           delLog >>

-----------------------------------------------------------------------------
(* Bounds of the model *)

MaxArrLen == 1210       \* longest array given to progressiveChunks
MaxId == 3              \* vids are 1..MaxId
MaxMembers == 4         \* longest remote list in SpecFetch
MaxCap == 4             \* largest finite maxCount in SpecFetch
MaxFullChunks == 4      \* SpecUpload sends up to this many full chunks and a rest
MaxTarget == 100        \* largest count in SpecAlloc
MaxPrimary == 60        \* most unused primary contacts in SpecAlloc
MaxCampaigns == 2       \* longest listConfigs in SpecRun
MaxRunId == 2           \* vids of the lists in SpecRun are 1..MaxRunId
MaxRunTarget == 1       \* largest count in SpecRun
MaxFaults == 3          \* most failed requests in one run of SpecRun

(* Program constants *)

RETRIEVAL_BATCH_SIZE == 2   \* HUBSPOT_RETRIEVAL_BATCH_SIZE (default 1000)
MAX_RETRIES == 3
Infinity == 1000000000      \* the default maxCount

DefaultSizes == <<300, 100, 50, 1>>

-----------------------------------------------------------------------------
(* JavaScript array helpers *)

Min(a, b) == IF a < b THEN a ELSE b
Max(a, b) == IF a > b THEN a ELSE b

Range(s) == { s[i] : i \in 1..Len(s) }

\* Array.prototype.slice(start, end): negative indices count from the end,
\* indices are clamped to 0..length, an empty range gives [].
Slice(a, start, end) ==
    LET len == Len(a)
        rel(i) == IF i < 0 THEN Max(len + i, 0) ELSE Min(i, len)
        k == rel(start)
        final == rel(end)
    IN  IF final <= k THEN << >> ELSE SubSeq(a, k + 1, final)

\* The array handed back as it was collected.
KeepDuplicates(a) == a

\* [...new Set(a)]: the elements of a in the order of their first occurrence.
RECURSIVE UniqueFrom(_, _)
UniqueFrom(a, acc) ==
    IF a = << >> THEN acc
    ELSE UniqueFrom(Tail(a),
                    IF Head(a) \in Range(acc) THEN acc ELSE Append(acc, Head(a)))

Unique(a) == UniqueFrom(a, << >>)

\* a.filter(vid => !used.has(vid))
RECURSIVE FilterUnused(_, _)
FilterUnused(a, used) ==
    IF a = << >> THEN << >>
    ELSE IF Head(a) \in used THEN FilterUnused(Tail(a), used)
         ELSE << Head(a) >> \o FilterUnused(Tail(a), used)

RECURSIVE Flatten(_)
Flatten(ss) == IF ss = << >> THEN << >> ELSE Head(ss) \o Flatten(Tail(ss))

RECURSIVE SumLen(_)
SumLen(ss) == IF ss = << >> THEN 0 ELSE Len(Head(ss)) + SumLen(Tail(ss))

Sizes(ss) == [ i \in 1..Len(ss) |-> Len(ss[i]) ]

-----------------------------------------------------------------------------
(* IEEE 754 double arithmetic, as far as line 310 needs it:                *)
(*   Math.round((selectedContacts.length / count) * 100)                   *)
(* A positive double is [limbs, exp]: its 53 significand bits cut into     *)
(* four limbs of 14, 13, 13 and 13 bits, most significant first, the       *)
(* first bit being 1 and weighing 2^exp.  Zero is [limbs |-> << >>,        *)
(* exp |-> 0].  Division and multiplication round to nearest, ties to      *)
(* even.  The operands stay below 2^17, so that no intermediate value      *)
(* leaves the 32-bit integers.                                             *)

LimbBase == 8192    \* 2^13

DoubleZero == [limbs |-> << >>, exp |-> 0]

\* the number of binary digits of n >= 0
BitLength(n) == CHOOSE b \in 0..30 : 2^b > n /\ (b = 0 \/ 2^(b - 1) <= n)

\* round the 53 bits in limbs, followed by the bit guard and a rest that is
\* non-zero iff sticky, to nearest, ties to even
RoundToDouble(limbs, guard, sticky, exp) ==
    LET roundUp == guard = 1 /\ (sticky \/ limbs[4] % 2 = 1)
        n4 == limbs[4] + 1
        n3 == limbs[3] + (n4 \div LimbBase)
        n2 == limbs[2] + (n3 \div LimbBase)
        n1 == limbs[1] + (n2 \div LimbBase)
    IN  IF ~roundUp THEN [limbs |-> limbs, exp |-> exp]
        ELSE IF n1 = 2 * LimbBase
             THEN [limbs |-> << LimbBase, 0, 0, 0 >>, exp |-> exp + 1]
             ELSE [limbs |-> << n1, n2 % LimbBase, n3 % LimbBase, n4 % LimbBase >>,
                   exp |-> exp]

\* the double nearest to s / c, for integers 0 <= s and 0 < c
DoubleDiv(s, c) ==
    IF s = 0 THEN DoubleZero
    ELSE LET up == IF s >= c THEN 0
                   ELSE CHOOSE a \in 1..17 : s * 2^a >= c /\ s * 2^(a - 1) < c
             down == IF s < c THEN 0
                     ELSE CHOOSE d \in 0..17 : c * 2^d <= s /\ c * 2^(d + 1) > s
             num == s * 2^up
             den == c * 2^down
             \* num / den is in [1, 2): 13 more quotient bits for each limb
             r0 == num - den
             r1 == (r0 * LimbBase) % den
             r2 == (r1 * LimbBase) % den
             r3 == (r2 * LimbBase) % den
             r4 == (r3 * LimbBase) % den
             guard == IF 2 * r4 >= den THEN 1 ELSE 0
         IN  RoundToDouble(<< LimbBase + ((r0 * LimbBase) \div den),
                              (r1 * LimbBase) \div den,
                              (r2 * LimbBase) \div den,
                              (r3 * LimbBase) \div den >>,
                           guard, (2 * r4) - (guard * den) # 0, down - up)

\* the double nearest to x * k, for an integer 1 <= k < 2^13
DoubleMul(x, k) ==
    IF x.limbs = << >> THEN DoubleZero
    ELSE LET t4 == x.limbs[4] * k
             t3 == x.limbs[3] * k + (t4 \div LimbBase)
             t2 == x.limbs[2] * k + (t3 \div LimbBase)
             t1 == x.limbs[1] * k + (t2 \div LimbBase)
             l4 == t4 % LimbBase
             l3 == t3 % LimbBase
             l2 == t2 % LimbBase
             \* the product is t1 l2 l3 l4; its lowest sh bits are dropped
             sh == BitLength(t1) - 14
             cut == 2^sh
             lift == 2^(13 - sh)
             low == l4 % cut
         IN  RoundToDouble(<< t1 \div cut,
                              ((t1 % cut) * lift) + (l2 \div cut),
                              ((l2 % cut) * lift) + (l3 \div cut),
                              ((l3 % cut) * lift) + (l4 \div cut) >>,
                           IF sh = 0 THEN 0 ELSE low \div 2^(sh - 1),
                           sh > 0 /\ low % 2^(sh - 1) # 0,
                           x.exp + sh)

\* Math.round of a double 0 <= x < 2^13: the integer nearest to x, halves
\* rounded up
MathRound(x) ==
    IF x.limbs = << >> \/ x.exp < -1 THEN 0
    ELSE IF x.exp = -1 THEN 1
    ELSE (x.limbs[1] \div 2^(13 - x.exp)) + ((x.limbs[1] \div 2^(12 - x.exp)) % 2)

-----------------------------------------------------------------------------
(* progressiveChunks, hubspotRoute.js 61-73 *)

\* The inner while loop of one size tier, with the index advanced wrongly
\* (one element skipped after every chunk).
RECURSIVE ChunkWhileSkipping(_, _, _, _)
ChunkWhileSkipping(a, size, pos, result) ==
    IF pos < Len(a)
    THEN LET chunk == Slice(a, pos, pos + size)
         IN  IF Len(chunk) = 0
             THEN [result |-> result, pos |-> pos]
             ELSE ChunkWhileSkipping(a, size, pos + size + 1, Append(result, chunk))
    ELSE [result |-> result, pos |-> pos]

\* The inner while loop of one size tier: it runs until the array is used up.
RECURSIVE ChunkWhile(_, _, _, _)
ChunkWhile(a, size, pos, result) ==
    IF pos < Len(a)
    THEN LET chunk == Slice(a, pos, pos + size)
         IN  IF Len(chunk) = 0
             THEN [result |-> result, pos |-> pos]
             ELSE ChunkWhile(a, size, pos + size, Append(result, chunk))
    ELSE [result |-> result, pos |-> pos]

\* The outer for loop over the sizes.
RECURSIVE ChunkFor(_, _, _, _)
ChunkFor(a, sizes, pos, result) ==
    IF sizes = << >> THEN result
    ELSE LET r == ChunkWhile(a, Head(sizes), pos, result)
         IN  ChunkFor(a, Tail(sizes), r.pos, r.result)

progressiveChunks(a, sizes) == ChunkFor(a, sizes, 0, << >>)

\* chunkArray, hubspotRoute.js 55-59
RECURSIVE ChunkArrayFrom(_, _, _)
ChunkArrayFrom(a, size, i) ==
    IF i < Len(a)
    THEN << Slice(a, i, i + size) >> \o ChunkArrayFrom(a, size, i + size)
    ELSE << >>

chunkArray(a, size) == ChunkArrayFrom(a, size, 0)

-----------------------------------------------------------------------------
(* The remote list API as getContactsFromList sees it.  A list is the      *)
(* sequence of vids the API pages through; the cursor (vid-offset) is the   *)
(* position reached.  A vid may occur more than once in the sequence: the   *)
(* API then hands the same contact out on more than one page.               *)

ListIds == 1..2
Ids == 1..MaxId
ErrorMessages == {"timeout", "status 502"}

SeqsUpTo(S, n) == UNION { [1..k -> S] : k \in 0..n }

\* GET /contacts/v1/lists/:listId/contacts/all?count=&vidOffset=
PageOf(members, count, off) ==
    LET contacts == Slice(members, off, off + count)
    IN  [contacts  |-> contacts,
         hasMore   |-> off + count < Len(members),
         vidOffset |-> off + Len(contacts)]

-----------------------------------------------------------------------------
(* getContactsFromList, hubspotRoute.js 75-144 *)

\* line 86
CountToFetch(len, m) == Min(RETRIEVAL_BATCH_SIZE, m - len)

\* line 84, the loop condition
LoopCond(hm, len, m) == hm /\ len < m

\* line 104 with the API's has-more flag ignored
HasMoreIgnoringFlag(resHasMore, len, m) == len < m

\* line 104
HasMoreAfter(resHasMore, len, m) == resHasMore /\ len < m

\* lines 123 and 129 with the limit compared off by one
RetriesExhaustedLate(errors) == errors > MAX_RETRIES

\* lines 123 and 129: the retry limit is reached
RetriesExhausted(errors) == errors >= MAX_RETRIES

\* lines 141-143
FetchReturn(contacts) ==
    /\ fpc' = "returned"
    /\ fetchResult' = Unique(contacts)
    /\ UNCHANGED fetchError

\* lines 76-84: the locals are initialised and the loop condition is tested
FetchBegin(listId, m) ==
    /\ fListId' = listId
    /\ maxCount' = m
    /\ allContacts' = << >>
    /\ hasMore' = TRUE
    /\ offset' = 0
    /\ consecutiveErrors' = 0
    /\ totalAttempts' = 0
    /\ okPages' = 0
    /\ requestLog' = << >>
    /\ IF LoopCond(TRUE, 0, m)
       THEN fpc' = "loop" /\ UNCHANGED << fetchResult, fetchError >>
       ELSE FetchReturn(<< >>)

\* The error counter left as it is by an answered page.
ErrorsAfterSuccessKept(errors) == errors

\* line 106 (second copy 859): an answered page resets the error counter
ErrorsAfterSuccess(errors) == 0

\* lines 85-116: one page request that is answered
FetchPageOk ==
    /\ fpc = "loop"
    /\ LET countToFetch == CountToFetch(Len(allContacts), maxCount)
           res == PageOf(remote[fListId], countToFetch, offset)
           pushed == allContacts \o res.contacts
           hm == HasMoreAfter(res.hasMore, Len(pushed), maxCount)
       IN  /\ totalAttempts' = totalAttempts + 1
           /\ okPages' = okPages + 1
           /\ requestLog' = Append(requestLog,
                  [count |-> countToFetch, vidOffset |-> offset, message |-> "ok"])
           /\ hasMore' = hm
           /\ offset' = res.vidOffset
           /\ consecutiveErrors' = ErrorsAfterSuccess(consecutiveErrors)
           /\ IF Len(pushed) >= maxCount
              THEN /\ allContacts' = Slice(pushed, 0, maxCount)
                   /\ FetchReturn(Slice(pushed, 0, maxCount))
              ELSE /\ allContacts' = pushed
                   /\ IF LoopCond(hm, Len(pushed), maxCount)
                      THEN fpc' = "loop" /\ UNCHANGED << fetchResult, fetchError >>
                      ELSE FetchReturn(pushed)
    /\ UNCHANGED << fListId, maxCount >>

\* lines 85-96 and 117-138: one page request that fails with message msg
FetchPageError(msg) ==
    /\ fpc = "loop"
    /\ totalAttempts' = totalAttempts + 1
    /\ consecutiveErrors' = consecutiveErrors + 1
    /\ requestLog' = Append(requestLog,
           [count |-> CountToFetch(Len(allContacts), maxCount),
            vidOffset |-> offset, message |-> msg])
    /\ IF Len(allContacts) > 0 /\ RetriesExhausted(consecutiveErrors + 1)
       THEN FetchReturn(allContacts)
       ELSE IF Len(allContacts) = 0 /\ RetriesExhausted(consecutiveErrors + 1)
       THEN /\ fpc' = "thrown"
            /\ fetchError' = [name |-> "Error", listId |-> fListId, cause |-> msg]
            /\ UNCHANGED fetchResult
       ELSE /\ fpc' = "loop"
            /\ UNCHANGED << fetchResult, fetchError >>
    /\ UNCHANGED << fListId, maxCount, allContacts, hasMore, offset, okPages >>

-----------------------------------------------------------------------------
(* addContactsToList, hubspotRoute.js 161-211 *)

\* JavaScript values a call can return
Undefined == [type |-> "undefined"]

\* the Number NaN
NaN == [nan |-> TRUE, day |-> 0]
UploadReport(count, failed) ==
    [type |-> "object", successCount |-> count, failedChunks |-> failed]

\* The catch block granting one request more than MAX_RETRIES.
AfterAddFailureOneMore(r) == IF r <= MAX_RETRIES THEN "retry" ELSE "record"

\* The catch block with the error thrown on once the retries are used up.
AfterAddFailureThrowing(r) == IF r < MAX_RETRIES THEN "retry" ELSE "throw"

\* lines 189-200, the catch block: r is retries after the increment
AfterAddFailure(r) == IF r < MAX_RETRIES THEN "retry" ELSE "record"

\* lines 204-211: the function ends without a return statement
UploadReturnValue(count, failed) == Undefined

\* the for loop moves to the chunk after index i, or the call ends
UploadAdvance(i, count, failed) ==
    /\ retries' = 0
    /\ IF i + 1 < Len(chunks)
       THEN /\ chunkIndex' = i + 1
            /\ upc' = "loop"
            /\ UNCHANGED uploadResult
       ELSE /\ chunkIndex' = i + 1
            /\ upc' = "returned"
            /\ uploadResult' = UploadReturnValue(count, failed)

\* lines 161-171: the empty-input return, or the chunks are built
UploadBegin(listId, contacts) ==
    /\ uListId' = listId
    /\ uContacts' = contacts
    /\ successCount' = 0
    /\ failedChunks' = << >>
    /\ chunkIndex' = 0
    /\ retries' = 0
    /\ attempted' = {}
    /\ accepted' = {}
    /\ addRequests' = << >>
    /\ IF Len(contacts) = 0
       THEN /\ chunks' = << >>
            /\ upc' = "returned"
            /\ uploadResult' = Undefined
       ELSE /\ chunks' = progressiveChunks(contacts, DefaultSizes)
            /\ upc' = "loop"
            /\ UNCHANGED uploadResult

\* lines 176-188: the add request for the current chunk is accepted
AddChunkOk ==
    /\ upc = "loop"
    /\ LET chunk == chunks[chunkIndex + 1]
       IN  /\ listMembers' = [listMembers EXCEPT ![uListId] = @ \cup Range(chunk)]
           /\ successCount' = successCount + Len(chunk)
           /\ attempted' = attempted \cup {chunkIndex}
           /\ accepted' = accepted \cup {chunkIndex}
           /\ addRequests' =
                 Append(addRequests, [chunk |-> chunkIndex, ok |-> TRUE])
           /\ UploadAdvance(chunkIndex, successCount + Len(chunk), failedChunks)
    /\ UNCHANGED << uListId, uContacts, chunks, failedChunks >>

\* lines 176-184 and 189-200: the add request for the current chunk fails
AddChunkFail ==
    /\ upc = "loop"
    /\ attempted' = attempted \cup {chunkIndex}
    /\ addRequests' = Append(addRequests, [chunk |-> chunkIndex, ok |-> FALSE])
    /\ LET decision == AfterAddFailure(retries + 1)
       IN  CASE decision = "retry" ->
                  /\ retries' = retries + 1
                  /\ UNCHANGED << chunkIndex, failedChunks, upc, uploadResult >>
             [] decision = "record" ->
                  /\ failedChunks' = Append(failedChunks, chunks[chunkIndex + 1])
                  /\ UploadAdvance(chunkIndex, successCount,
                                   Append(failedChunks, chunks[chunkIndex + 1]))
             [] decision = "throw" ->
                  /\ retries' = retries + 1
                  /\ upc' = "thrown"
                  /\ UNCHANGED << chunkIndex, failedChunks, uploadResult >>
    /\ UNCHANGED << listMembers, uListId, uContacts, chunks, successCount, accepted >>

uploadVars == << uListId, uContacts, chunks, chunkIndex, retries, successCount,
                 failedChunks, upc, uploadResult, attempted, accepted,
                 addRequests >>

UploadIdle ==
    /\ uListId = 0
    /\ uContacts = << >>
    /\ chunks = << >>
    /\ chunkIndex = 0
    /\ retries = 0
    /\ successCount = 0
    /\ failedChunks = << >>
    /\ upc = "idle"
    /\ uploadResult = Undefined
    /\ attempted = {}
    /\ accepted = {}
    /\ addRequests = << >>

SendListId == 3

-----------------------------------------------------------------------------
(* processSingleCampaign, hubspotRoute.js 248-376 *)

NoList == 0     \* a list id that is not configured (undefined, falsy)

\* line 263
PrimaryFetchCount(count) == Max(count * 3, 500)

\* The secondary list asked whenever it is configured.
NeedSecondaryAlways(primaryAfterFilter, count, secondaryListId) ==
    secondaryListId # NoList

\* line 952 of the second copy
PrimaryFetchCount2(count) == count * 2

\* line 964 of the second copy
SecondaryFetchCount2(count, primaryAfterFilter) ==
    (count - primaryAfterFilter) * 2

\* line 278
NeedSecondary(primaryAfterFilter, count, secondaryListId) ==
    primaryAfterFilter < count /\ secondaryListId # NoList

\* lines 279-280
SecondaryFetchCount(count, primaryAfterFilter) ==
    Max((count - primaryAfterFilter) * 3, 500)

\* lines 272 and 291 with the filter left out
KeepAll(contacts, used) == contacts

\* lines 272 and 291
FilterUsed(contacts, used) == FilterUnused(contacts, used)

\* The selection with the secondary contacts ahead of the primary ones.
SelectSecondaryFirst(primary, secondary, count) ==
    Slice(secondary \o primary, 0, count)

\* lines 302-305
SelectContacts(primary, secondary, count) ==
    Slice(primary \o secondary, 0, count)

\* line 310
FulfillmentPercentage(selected, count) ==
    IF count > 0 THEN MathRound(DoubleMul(DoubleDiv(selected, count), 100))
    ELSE 0

\* lines 349-361, the CreatedList document, and lines 365-375, the result
AllocationCounts(count, listId) ==
    [listId |-> listId,
     contactCount |-> Len(selectedContacts),
     requestedCount |-> count,
     availableCount |-> primaryBeforeFilter + secondaryBeforeFilter,
     filteredCount |-> (primaryBeforeFilter - Len(primaryContacts))
                          + (secondaryBeforeFilter - Len(secondaryContacts)),
     fulfillmentPercentage |-> fulfillmentPercentage]

fetchVars == << fListId, maxCount, allContacts, hasMore, offset,
                consecutiveErrors, totalAttempts, fpc, fetchResult, fetchError,
                okPages, requestLog >>

FetchIdle ==
    /\ fListId = 0
    /\ maxCount = 0
    /\ allContacts = << >>
    /\ hasMore = TRUE
    /\ offset = 0
    /\ consecutiveErrors = 0
    /\ totalAttempts = 0
    /\ fpc = "idle"
    /\ fetchResult = << >>
    /\ fetchError = [name |-> "none", listId |-> 0, cause |-> "none"]
    /\ okPages = 0
    /\ requestLog = << >>

\* the variables of the components that the specifications of the first
\* copy of the pipeline leave alone
legacyVars == << createState, effects >>

timeVars == << now, startTime, delay, starts, ends >>

nameVars == << nameArgs, newEmailName, scheduled >>

clonerVars == << emailIds, cloningCount, emailInfoMap, stats,
                 emailNamesToCheck, emailScheduleMap, store, remoteNames,
                 dbDuplicateNames, hubspotDuplicates, processedEmailsCache,
                 emailsToProcess, ei, pending, stage, batchResults, cloneCalls, epc,
                 cloneFaults, remoteClones, lookups, lookupLog, served, reqs >>

propsVars == << contactIds, propIndex, propRequests, ppc >>

serialVars == << undated >>

deleteVars == << auditRecords, hubspotEmails, delReq, delLog >>

otherVars == << legacyVars, timeVars, nameVars, clonerVars, propsVars,
               serialVars, deleteVars >>

\* what the specification of one of these components leaves alone
besideLegacy ==
    << timeVars, nameVars, clonerVars, propsVars, serialVars, deleteVars >>

besideTime ==
    << legacyVars, nameVars, clonerVars, propsVars, serialVars, deleteVars >>

besideName ==
    << legacyVars, timeVars, clonerVars, propsVars, serialVars, deleteVars >>

besideCloner ==
    << legacyVars, timeVars, nameVars, propsVars, serialVars, deleteVars >>

besideProps ==
    << legacyVars, timeVars, nameVars, clonerVars, serialVars, deleteVars >>

besideDelete ==
    << legacyVars, timeVars, nameVars, clonerVars, propsVars, serialVars >>

besideSerial ==
    << legacyVars, timeVars, nameVars, propsVars, deleteVars >>

NoName == [type |-> "none"]

EmptyMap == [ x \in {} |-> 0 ]

NoStats == [totalAttempted |-> 0, successfullyCloned |-> 0,
            duplicatesSkipped |-> 0, errors |-> 0, clonedEmails |-> << >>]

LegacyIdle ==
    /\ createState = "idle"
    /\ effects = {}

TimeIdle ==
    /\ now = 0
    /\ startTime = 0
    /\ delay = 0
    /\ starts = << >>
    /\ ends = << >>

NameIdle ==
    /\ nameArgs = NoName
    /\ newEmailName = NoName
    /\ scheduled = NoName

ClonerIdle ==
    /\ emailIds = << >>
    /\ cloningCount = 0
    /\ emailInfoMap = EmptyMap
    /\ stats = NoStats
    /\ emailNamesToCheck = << >>
    /\ emailScheduleMap = EmptyMap
    /\ store = {}
    /\ remoteNames = {}
    /\ dbDuplicateNames = {}
    /\ hubspotDuplicates = EmptyMap
    /\ processedEmailsCache = {}
    /\ emailsToProcess = << >>
    /\ ei = 0
    /\ pending = {}
    /\ stage = EmptyMap
    /\ batchResults = EmptyMap
    /\ cloneCalls = << >>
    /\ epc = "idle"
    /\ cloneFaults = 0
    /\ remoteClones = EmptyBag
    /\ lookups = {}
    /\ lookupLog = EmptyMap
    /\ served = << >>
    /\ reqs = << >>

PropsIdle ==
    /\ contactIds = << >>
    /\ propIndex = 0
    /\ propRequests = << >>
    /\ ppc = "idle"

SerialIdle ==
    /\ undated = {}

NoRequest == [pc |-> "idle"]

DeleteIdle ==
    /\ auditRecords = EmptyMap
    /\ hubspotEmails = {}
    /\ delReq = NoRequest
    /\ delLog = << >>

OthersIdle ==
    /\ DeleteIdle
    /\ LegacyIdle
    /\ TimeIdle
    /\ NameIdle
    /\ ClonerIdle
    /\ PropsIdle
    /\ SerialIdle

chunkVars == << arr, chunked, cpc >>

ChunksIdle ==
    /\ arr = << >>
    /\ chunked = << >>
    /\ cpc = "idle"

runVars == << listConfigs, index, usedContacts, results, rpc, primaryContacts,
              secondaryContacts, primaryBeforeFilter, secondaryBeforeFilter,
              selectedContacts, fulfillmentPercentage, newList, createdLists,
              propertiesUpdated, selections, faults >>

\* the locals of processSingleCampaign before its first statement
CampaignLocalsIdle ==
    /\ primaryContacts = << >>
    /\ secondaryContacts = << >>
    /\ primaryBeforeFilter = 0
    /\ secondaryBeforeFilter = 0
    /\ selectedContacts = << >>
    /\ fulfillmentPercentage = 0
    /\ newList = NoList

RunIdle ==
    /\ listConfigs = << >>
    /\ index = 0
    /\ usedContacts = {}
    /\ results = << >>
    /\ rpc = "idle"
    /\ CampaignLocalsIdle
    /\ createdLists = << >>
    /\ propertiesUpdated = {}
    /\ selections = << >>
    /\ faults = 0

\* the locals of a finished getContactsFromList call are dropped
FetchReset ==
    /\ fListId' = 0
    /\ maxCount' = 0
    /\ allContacts' = << >>
    /\ hasMore' = TRUE
    /\ offset' = 0
    /\ consecutiveErrors' = 0
    /\ totalAttempts' = 0
    /\ fpc' = "idle"
    /\ fetchResult' = << >>
    /\ fetchError' = [name |-> "none", listId |-> 0, cause |-> "none"]
    /\ okPages' = 0
    /\ requestLog' = << >>

\* the locals of a finished addContactsToList call are dropped
UploadReset ==
    /\ uListId' = 0
    /\ uContacts' = << >>
    /\ chunks' = << >>
    /\ chunkIndex' = 0
    /\ retries' = 0
    /\ successCount' = 0
    /\ failedChunks' = << >>
    /\ upc' = "idle"
    /\ uploadResult' = Undefined
    /\ attempted' = {}
    /\ accepted' = {}
    /\ addRequests' = << >>

\* the listId the API gives the list created for the config at index i
NewListId(i) == 10 + i

\* lines 384-391 and 248-264: the next config is taken and the primary list
\* is asked for
StartCampaign ==
    /\ rpc = "next"
    /\ FetchBegin(listConfigs[index + 1].primaryListId,
                  PrimaryFetchCount(listConfigs[index + 1].count))
    /\ rpc' = "primary"
    /\ UNCHANGED << otherVars, chunkVars, remote, listMembers, uploadVars, listConfigs,
                    index, usedContacts, results, primaryContacts,
                    secondaryContacts, primaryBeforeFilter,
                    secondaryBeforeFilter, selectedContacts,
                    fulfillmentPercentage, newList, createdLists,
                    propertiesUpdated, selections, faults >>

\* lines 264-284 and 296-299: the primary fetch has returned or thrown
AfterPrimaryFetch ==
    /\ rpc = "primary"
    /\ fpc \in {"returned", "thrown"}
    /\ LET cfg == listConfigs[index + 1]
           fetched == IF fpc = "returned" THEN fetchResult ELSE << >>
           filtered == FilterUsed(fetched, usedContacts)
       IN  /\ primaryBeforeFilter' = Len(fetched)
           /\ primaryContacts' = filtered
           /\ IF fpc = "returned"
                 /\ NeedSecondary(Len(filtered), cfg.count, cfg.secondaryListId)
              THEN /\ FetchBegin(cfg.secondaryListId,
                                 SecondaryFetchCount(cfg.count, Len(filtered)))
                   /\ rpc' = "secondary"
              ELSE /\ FetchReset
                   /\ rpc' = "select"
    /\ UNCHANGED << otherVars, chunkVars, remote, listMembers, uploadVars, listConfigs,
                    index, usedContacts, results, secondaryContacts,
                    secondaryBeforeFilter, selectedContacts,
                    fulfillmentPercentage, newList, createdLists,
                    propertiesUpdated, selections, faults >>

\* lines 284-299: the secondary fetch has returned or thrown
AfterSecondaryFetch ==
    /\ rpc = "secondary"
    /\ fpc \in {"returned", "thrown"}
    /\ LET fetched == IF fpc = "returned" THEN fetchResult ELSE << >>
       IN  /\ secondaryBeforeFilter' = Len(fetched)
           /\ secondaryContacts' = FilterUsed(fetched, usedContacts)
    /\ FetchReset
    /\ rpc' = "select"
    /\ UNCHANGED << otherVars, chunkVars, remote, listMembers, uploadVars, listConfigs,
                    index, usedContacts, results, primaryContacts,
                    primaryBeforeFilter, selectedContacts,
                    fulfillmentPercentage, newList, createdLists,
                    propertiesUpdated, selections, faults >>

\* The used set holding the contacts of the last selection only.
UsedAfterLastOnly(used, selected) == Range(selected)

\* line 308: every selected vid is added to usedContactsSet
UsedAfter(used, selected) == used \cup Range(selected)

\* lines 302-310: the selection is taken, booked and measured
Select ==
    /\ rpc = "select"
    /\ LET count == listConfigs[index + 1].count
           selected == SelectContacts(primaryContacts, secondaryContacts, count)
       IN  /\ selectedContacts' = selected
           /\ usedContacts' = UsedAfter(usedContacts, selected)
           /\ fulfillmentPercentage' = FulfillmentPercentage(Len(selected), count)
           /\ selections' = Append(selections, selected)
    /\ rpc' = "create"
    /\ UNCHANGED << otherVars, chunkVars, remote, fetchVars, listMembers, uploadVars,
                    listConfigs, index, results, primaryContacts,
                    secondaryContacts, primaryBeforeFilter,
                    secondaryBeforeFilter, newList, createdLists,
                    propertiesUpdated, faults >>

\* The for loop left at the first campaign that throws.
NextPositionAborting(i, n, outcome) ==
    IF i + 1 < n /\ outcome.status = "fulfilled" THEN "next" ELSE "done"

\* line 384: after the outcome of the config at index i of n the for loop
\* takes the next config, or ends
NextPosition(i, n, outcome) == IF i + 1 < n THEN "next" ELSE "done"

\* lines 392-399 and 400-410: the outcome is pushed and the loop moves on
FinishCampaign(outcome) ==
    /\ results' = Append(results, outcome)
    /\ index' = index + 1
    /\ rpc' = NextPosition(index, Len(listConfigs), outcome)
    /\ primaryContacts' = << >>
    /\ secondaryContacts' = << >>
    /\ primaryBeforeFilter' = 0
    /\ secondaryBeforeFilter' = 0
    /\ selectedContacts' = << >>
    /\ fulfillmentPercentage' = 0
    /\ newList' = NoList

\* The uploads begun whether or not a contact was selected.
AfterCreateUploadingAlways(selected, send) ==
    IF send # NoList THEN "uploadSend" ELSE "uploadNew"

\* lines 327-347: what follows the creation of the list
AfterCreate(selected, send) ==
    IF Len(selected) > 0
    THEN IF send # NoList THEN "uploadSend" ELSE "uploadNew"
    ELSE "audit"

\* lines 325-337: the list is created; with a selection the first upload starts
CreateListOk ==
    /\ rpc = "create"
    /\ LET created == NewListId(index)
           send == listConfigs[index + 1].sendContactListId
       IN  /\ newList' = created
           /\ listMembers' = [ l \in DOMAIN listMembers \cup {created} |->
                                 IF l \in DOMAIN listMembers THEN listMembers[l]
                                 ELSE {} ]
           /\ rpc' = AfterCreate(selectedContacts, send)
           /\ CASE rpc' = "uploadSend" -> UploadBegin(send, selectedContacts)
                [] rpc' = "uploadNew" -> UploadBegin(created, selectedContacts)
                [] OTHER -> UNCHANGED uploadVars
    /\ UNCHANGED << otherVars, chunkVars, remote, fetchVars, listConfigs, index,
                    usedContacts, results, primaryContacts, secondaryContacts,
                    primaryBeforeFilter, secondaryBeforeFilter,
                    selectedContacts, fulfillmentPercentage, createdLists,
                    propertiesUpdated, selections, faults >>

\* lines 325 and 155-158: createHubSpotList throws, the campaign is rejected
CreateListFail ==
    /\ rpc = "create"
    /\ faults < MaxFaults
    /\ faults' = faults + 1
    /\ FinishCampaign([status |-> "rejected", reason |-> "createHubSpotList"])
    /\ UNCHANGED << otherVars, chunkVars, remote, fetchVars, listMembers, uploadVars,
                    listConfigs, usedContacts, createdLists, propertiesUpdated,
                    selections >>

\* lines 333-337: the upload to the send list is over
AfterUploadSend ==
    /\ rpc = "uploadSend"
    /\ upc \in {"returned", "thrown"}
    /\ IF upc = "returned"
       THEN UploadBegin(newList, selectedContacts) /\ rpc' = "uploadNew"
       ELSE UploadReset /\ rpc' = "audit"
    /\ UNCHANGED << otherVars, chunkVars, remote, fetchVars, listMembers, listConfigs,
                    index, usedContacts, results, primaryContacts,
                    secondaryContacts, primaryBeforeFilter,
                    secondaryBeforeFilter, selectedContacts,
                    fulfillmentPercentage, newList, createdLists,
                    propertiesUpdated, selections, faults >>

\* lines 337-344: the upload to the new list is over
AfterUploadNew ==
    /\ rpc = "uploadNew"
    /\ upc \in {"returned", "thrown"}
    /\ rpc' = IF upc = "returned" THEN "properties" ELSE "audit"
    /\ UploadReset
    /\ UNCHANGED << otherVars, chunkVars, remote, fetchVars, listMembers, listConfigs,
                    index, usedContacts, results, primaryContacts,
                    secondaryContacts, primaryBeforeFilter,
                    secondaryBeforeFilter, selectedContacts,
                    fulfillmentPercentage, newList, createdLists,
                    propertiesUpdated, selections, faults >>

\* lines 221-245: the batch request of the chunk at index propIndex has
\* been answered (ok) or has failed and been logged, and the 300 ms timer
\* has fired; the loop takes the next chunk or the function returns
PropertiesBatch(ok) ==
    LET batches == chunkArray(selectedContacts, 100)
    IN  /\ propertiesUpdated' =
              IF ok THEN propertiesUpdated \cup Range(batches[propIndex + 1])
              ELSE propertiesUpdated
        /\ IF propIndex + 1 < Len(batches)
           THEN propIndex' = propIndex + 1 /\ rpc' = "properties"
           ELSE propIndex' = 0 /\ rpc' = "audit"

\* line 340 and 213-246: updateContactProperties; one batch request of a
\* chunk of 100 is answered or fails
UpdateProperties ==
    /\ rpc = "properties"
    /\ \E ok \in BOOLEAN :
          /\ ~ok => faults < MaxFaults
          /\ faults' = IF ok THEN faults ELSE faults + 1
          /\ PropertiesBatch(ok)
    /\ UNCHANGED << besideProps, contactIds, propRequests, ppc, chunkVars,
                    remote, fetchVars, listMembers, uploadVars,
                    listConfigs, index, usedContacts, results, primaryContacts,
                    secondaryContacts, primaryBeforeFilter,
                    secondaryBeforeFilter, selectedContacts,
                    fulfillmentPercentage, newList, createdLists, selections >>

\* lines 349-375 and 392: the audit record is written, the campaign fulfilled
AuditOk ==
    /\ rpc = "audit"
    /\ LET counts == AllocationCounts(listConfigs[index + 1].count, newList)
       IN  /\ createdLists' = Append(createdLists, counts)
           /\ FinishCampaign([status |-> "fulfilled", value |-> counts])
    /\ UNCHANGED << otherVars, chunkVars, remote, fetchVars, listMembers, uploadVars,
                    listConfigs, usedContacts, propertiesUpdated, selections,
                    faults >>

\* line 349: CreatedList.create throws, the campaign is rejected
AuditFail ==
    /\ rpc = "audit"
    /\ faults < MaxFaults
    /\ faults' = faults + 1
    /\ FinishCampaign([status |-> "rejected", reason |-> "CreatedList.create"])
    /\ UNCHANGED << otherVars, chunkVars, remote, fetchVars, listMembers, uploadVars,
                    listConfigs, usedContacts, createdLists, propertiesUpdated,
                    selections >>

campaignVars == << listConfigs, index, usedContacts, results, rpc,
                   primaryContacts, secondaryContacts, primaryBeforeFilter,
                   secondaryBeforeFilter, selectedContacts,
                   fulfillmentPercentage, newList, createdLists,
                   propertiesUpdated, selections >>

\* lines 78-99 inside a run: a page request answers
RunFetchOk ==
    /\ FetchPageOk
    /\ UNCHANGED << otherVars, chunkVars, remote, listMembers, uploadVars, runVars >>

\* lines 113-134 inside a run: a page request fails
RunFetchFail ==
    /\ faults < MaxFaults
    /\ \E msg \in ErrorMessages : FetchPageError(msg)
    /\ faults' = faults + 1
    /\ UNCHANGED << otherVars, chunkVars, remote, listMembers, uploadVars, campaignVars >>

\* lines 176-188 inside a run: the API accepts a chunk
RunUploadOk ==
    /\ AddChunkOk
    /\ UNCHANGED << otherVars, chunkVars, remote, fetchVars, runVars >>

\* lines 189-200 inside a run: the request for a chunk fails
RunUploadFail ==
    /\ faults < MaxFaults
    /\ AddChunkFail
    /\ faults' = faults + 1
    /\ UNCHANGED << otherVars, chunkVars, remote, fetchVars, campaignVars >>

-----------------------------------------------------------------------------
(* SpecChunks: progressiveChunks(arr) for arr = [1, ..., n] *)

InitChunks ==
    /\ OthersIdle
    /\ \E n \in 0..MaxArrLen : arr = [ i \in 1..n |-> i ]
    /\ chunked = << >>
    /\ cpc = "input"
    /\ remote = [ l \in ListIds |-> << >> ]
    /\ FetchIdle
    /\ listMembers = [ l \in {SendListId} |-> {} ]
    /\ UploadIdle
    /\ RunIdle

ApplyProgressiveChunks ==
    /\ cpc = "input"
    /\ chunked' = progressiveChunks(arr, DefaultSizes)
    /\ cpc' = "done"
    /\ UNCHANGED << otherVars, arr, remote, fetchVars, listMembers, uploadVars,
                    runVars >>

NextChunks == ApplyProgressiveChunks

SpecChunks == InitChunks /\ [][NextChunks]_vars

-----------------------------------------------------------------------------
(* SpecFetch: one call getContactsFromList(1, maxCount) *)

MaxCounts == 0..MaxCap \cup {Infinity}

InitFetch ==
    /\ OthersIdle
    /\ ChunksIdle
    /\ listMembers = [ l \in {SendListId} |-> {} ]
    /\ UploadIdle
    /\ RunIdle
    /\ \E members \in SeqsUpTo(Ids, MaxMembers) :
          remote = [ l \in ListIds |-> IF l = 1 THEN members ELSE << >> ]
    /\ \E m \in MaxCounts :
          /\ fListId = 1
          /\ maxCount = m
    /\ allContacts = << >>
    /\ hasMore = TRUE
    /\ offset = 0
    /\ consecutiveErrors = 0
    /\ totalAttempts = 0
    /\ fpc = "idle"
    /\ fetchResult = << >>
    /\ fetchError = [name |-> "none", listId |-> 0, cause |-> "none"]
    /\ okPages = 0
    /\ requestLog = << >>

FetchCall ==
    /\ fpc = "idle"
    /\ FetchBegin(fListId, maxCount)
    /\ UNCHANGED << otherVars, chunkVars, remote, listMembers, uploadVars, runVars >>

FetchOk ==
    /\ FetchPageOk
    /\ UNCHANGED << otherVars, chunkVars, remote, listMembers, uploadVars, runVars >>

FetchFail ==
    /\ \E msg \in ErrorMessages : FetchPageError(msg)
    /\ UNCHANGED << otherVars, chunkVars, remote, listMembers, uploadVars, runVars >>

NextFetch == FetchCall \/ FetchOk \/ FetchFail

SpecFetch == InitFetch /\ [][NextFetch]_vars

-----------------------------------------------------------------------------
(* SpecRetry: one call getContactsFromList(1, maxCount) of the first copy  *)
(* (hubspotRoute.js 75-144) or of the second copy (840-876), whose         *)
(* retryCount is held in consecutiveErrors.                                *)

\* lines 846 and 876: the loop condition of the second copy; when it fails
\* the unique contacts are returned
Fetch2Continue(hm, errors, contacts) ==
    IF hm /\ errors < MAX_RETRIES /\ Len(contacts) < maxCount
    THEN fpc' = "loop2" /\ UNCHANGED << fetchResult, fetchError >>
    ELSE /\ fpc' = "returned2"
         /\ fetchResult' = Unique(contacts)
         /\ UNCHANGED fetchError

\* lines 840-846: the locals of the second copy are initialised
Fetch2Call ==
    /\ fpc = "idle"
    /\ allContacts' = << >>
    /\ hasMore' = TRUE
    /\ offset' = 0
    /\ consecutiveErrors' = 0
    /\ okPages' = 0
    /\ requestLog' = << >>
    /\ Fetch2Continue(TRUE, 0, << >>)
    /\ UNCHANGED << otherVars, chunkVars, remote, listMembers, uploadVars,
                    runVars, fListId, maxCount, totalAttempts >>

\* lines 847-865: a page request of the second copy is answered
Fetch2Ok ==
    /\ fpc = "loop2"
    /\ LET countToFetch == CountToFetch(Len(allContacts), maxCount)
           res == PageOf(remote[fListId], countToFetch, offset)
           pushed == allContacts \o res.contacts
           hm == HasMoreAfter(res.hasMore, Len(pushed), maxCount)
           errors == ErrorsAfterSuccess(consecutiveErrors)
       IN  /\ okPages' = okPages + 1
           /\ requestLog' = Append(requestLog,
                  [count |-> countToFetch, vidOffset |-> offset, message |-> "ok"])
           /\ hasMore' = hm
           /\ offset' = res.vidOffset
           /\ consecutiveErrors' = errors
           /\ IF Len(pushed) >= maxCount
              THEN /\ allContacts' = Slice(pushed, 0, maxCount)
                   /\ fpc' = "returned2"
                   /\ fetchResult' = Unique(Slice(pushed, 0, maxCount))
                   /\ UNCHANGED fetchError
              ELSE /\ allContacts' = pushed
                   /\ Fetch2Continue(hm, errors, pushed)
    /\ UNCHANGED << otherVars, chunkVars, remote, listMembers, uploadVars,
                    runVars, fListId, maxCount, totalAttempts >>

\* lines 866-871: a page request of the second copy fails
Fetch2Fail ==
    /\ fpc = "loop2"
    /\ \E msg \in ErrorMessages :
          requestLog' = Append(requestLog,
              [count |-> CountToFetch(Len(allContacts), maxCount),
               vidOffset |-> offset, message |-> msg])
    /\ consecutiveErrors' = consecutiveErrors + 1
    /\ hasMore' = IF consecutiveErrors + 1 < MAX_RETRIES THEN hasMore ELSE FALSE
    /\ Fetch2Continue(hasMore', consecutiveErrors + 1, allContacts)
    /\ UNCHANGED << otherVars, chunkVars, remote, listMembers, uploadVars,
                    runVars, fListId, maxCount, totalAttempts, allContacts,
                    offset, okPages >>

NextRetry ==
    \/ FetchCall
    \/ FetchOk
    \/ FetchFail
    \/ Fetch2Call
    \/ Fetch2Ok
    \/ Fetch2Fail

SpecRetry == InitFetch /\ [][NextRetry]_vars

-----------------------------------------------------------------------------
(* SpecUpload: one call addContactsToList(SendListId, [1, ..., n]) *)

UploadSizes == { k * 300 + r : k \in 0..MaxFullChunks, r \in {0, 1, 150} }

InitUpload ==
    /\ OthersIdle
    /\ ChunksIdle
    /\ remote = [ l \in ListIds |-> << >> ]
    /\ FetchIdle
    /\ listMembers = [ l \in {SendListId} |-> {} ]
    /\ uListId = SendListId
    /\ \E n \in UploadSizes : uContacts = [ i \in 1..n |-> i ]
    /\ chunks = << >>
    /\ chunkIndex = 0
    /\ retries = 0
    /\ successCount = 0
    /\ failedChunks = << >>
    /\ upc = "idle"
    /\ uploadResult = Undefined
    /\ attempted = {}
    /\ accepted = {}
    /\ addRequests = << >>
    /\ RunIdle

UploadCall ==
    /\ upc = "idle"
    /\ UploadBegin(uListId, uContacts)
    /\ UNCHANGED << otherVars, chunkVars, remote, fetchVars, listMembers, runVars >>

UploadOk ==
    /\ AddChunkOk
    /\ UNCHANGED << otherVars, chunkVars, remote, fetchVars, runVars >>

UploadFail ==
    /\ AddChunkFail
    /\ UNCHANGED << otherVars, chunkVars, remote, fetchVars, runVars >>

NextUpload == UploadCall \/ UploadOk \/ UploadFail

SpecUpload == InitUpload /\ [][NextUpload]_vars

-----------------------------------------------------------------------------
(* SpecAlloc: lines 302-310 of processSingleCampaign on given fetch        *)
(* results: p unused primary contacts 1..p and s unused secondary contacts *)
(* o+1..o+s, where o = p when the two lists share no member and o = 0 when *)
(* the members of the primary list are in the secondary list as well; the  *)
(* secondary list is only asked when the primary falls short               *)

SecondarySizes == {0, 50}

SecondaryOffsets == 0..MaxPrimary

InitAlloc ==
    /\ OthersIdle
    /\ ChunksIdle
    /\ remote = [ l \in ListIds |-> << >> ]
    /\ FetchIdle
    /\ listMembers = [ l \in {SendListId} |-> {} ]
    /\ UploadIdle
    /\ \E count \in (-1)..MaxTarget, p \in 0..MaxPrimary, s \in SecondarySizes,
          o \in SecondaryOffsets :
          /\ s > 0 => p < count
          /\ o \in {0, p}
          /\ s = 0 => o = 0
          /\ listConfigs = << [count |-> count, primaryListId |-> 1,
                               secondaryListId |-> IF s > 0 THEN 2 ELSE NoList,
                               sendContactListId |-> NoList] >>
          /\ primaryContacts = [ i \in 1..p |-> i ]
          /\ secondaryContacts = [ i \in 1..s |-> o + i ]
          /\ primaryBeforeFilter = p
          /\ secondaryBeforeFilter = s
    /\ index = 0
    /\ usedContacts = {}
    /\ results = << >>
    /\ rpc = "select"
    /\ selectedContacts = << >>
    /\ fulfillmentPercentage = 0
    /\ newList = NoList
    /\ createdLists = << >>
    /\ propertiesUpdated = {}
    /\ selections = << >>
    /\ faults = 0

NextAlloc == Select

SpecAlloc == InitAlloc /\ [][NextAlloc]_vars

-----------------------------------------------------------------------------
(* SpecRun: processCampaignsWithDelay(listConfigs) *)

RunIds == 1..MaxRunId

\* the secondary list holds every vid and the primary list the vids 1..p:
\* whatever a campaign takes from one list is offered again by the other
RemoteLists ==
    { [ l \in ListIds |-> IF l = 1 THEN [ i \in 1..p |-> i ]
                          ELSE [ i \in 1..MaxRunId |-> i ] ] :
        p \in 0..MaxRunId }

\* the configs of one run differ in count; they share the secondary list and
\* the send list
Configs(secondary, send) ==
    [count : (-1)..MaxRunTarget, primaryListId : {1},
     secondaryListId : {secondary}, sendContactListId : {send}]

InitRun ==
    /\ OthersIdle
    /\ ChunksIdle
    /\ remote \in RemoteLists
    /\ FetchIdle
    /\ listMembers = [ l \in {SendListId} |-> {} ]
    /\ UploadIdle
    /\ \E n \in 1..MaxCampaigns, secondary \in {NoList, 2},
          send \in {NoList, SendListId} :
          listConfigs \in [1..n -> Configs(secondary, send)]
    /\ index = 0
    /\ usedContacts = {}
    /\ results = << >>
    /\ rpc = "next"
    /\ CampaignLocalsIdle
    /\ createdLists = << >>
    /\ propertiesUpdated = {}
    /\ selections = << >>
    /\ faults = 0

NextRun ==
    \/ StartCampaign
    \/ RunFetchOk
    \/ RunFetchFail
    \/ AfterPrimaryFetch
    \/ AfterSecondaryFetch
    \/ Select
    \/ CreateListOk
    \/ CreateListFail
    \/ RunUploadOk
    \/ RunUploadFail
    \/ AfterUploadSend
    \/ AfterUploadNew
    \/ UpdateProperties
    \/ AuditOk
    \/ AuditFail

SpecRun == InitRun /\ [][NextRun]_vars

-----------------------------------------------------------------------------
(* The second copy of the pipeline, hubspotRoute.js 766-1405.              *)
(* SpecEffects2: lines 978-1017 of its processSingleCampaign, the side     *)
(* effects of one invocation on a given selection [1, ..., n].             *)

MaxEffectIds == 2       \* selections of 0..MaxEffectIds and of 300 + MaxEffectIds vids

EffectSizes == (0..MaxEffectIds) \cup {300 + MaxEffectIds}

\* lines 893-894: addContactsToList of the second copy is called
UploadBegin2(listId, contacts) ==
    /\ uListId' = listId
    /\ uContacts' = contacts
    /\ chunks' = progressiveChunks(contacts, DefaultSizes)
    /\ chunkIndex' = 0
    /\ retries' = 0
    /\ successCount' = 0
    /\ failedChunks' = << >>
    /\ attempted' = {}
    /\ accepted' = {}
    /\ addRequests' = << >>
    /\ uploadResult' = Undefined
    /\ upc' = IF Len(contacts) = 0 THEN "returned" ELSE "loop"

\* lines 895-903: the add request for the current chunk is accepted and the
\* timer of 500 ms is set
AddChunk2Ok ==
    /\ upc = "loop"
    /\ listMembers' = [listMembers EXCEPT
                          ![uListId] = @ \cup Range(chunks[chunkIndex + 1])]
    /\ attempted' = attempted \cup {chunkIndex}
    /\ accepted' = accepted \cup {chunkIndex}
    /\ addRequests' = Append(addRequests, [chunk |-> chunkIndex, ok |-> TRUE])
    /\ upc' = "wait"
    /\ UNCHANGED << uListId, uContacts, chunks, chunkIndex, retries,
                    successCount, failedChunks, uploadResult >>

\* lines 903 and 895-897: the timer of 500 ms fires; the request for the next
\* chunk is sent, or after the last chunk the call returns
AddChunk2Wait ==
    /\ upc = "wait"
    /\ chunkIndex' = chunkIndex + 1
    /\ upc' = IF chunkIndex + 1 < Len(chunks) THEN "loop" ELSE "returned"
    /\ UNCHANGED << uListId, uContacts, chunks, retries, successCount,
                    failedChunks, uploadResult, attempted, accepted,
                    addRequests, listMembers >>

\* lines 895-907: the add request for the current chunk fails and the error
\* is thrown on
AddChunk2Fail ==
    /\ upc = "loop"
    /\ attempted' = attempted \cup {chunkIndex}
    /\ addRequests' = Append(addRequests, [chunk |-> chunkIndex, ok |-> FALSE])
    /\ upc' = "thrown"
    /\ UNCHANGED << uListId, uContacts, chunks, chunkIndex, retries,
                    successCount, failedChunks, uploadResult, accepted >>

\* lines 1041-1043: the invocation has thrown and the run records it
Reject2(reason) ==
    /\ results' = Append(results, [status |-> "rejected", reason |-> reason])
    /\ index' = index + 1
    /\ rpc' = "done"

localVars == << listConfigs, usedContacts, primaryContacts, secondaryContacts,
                primaryBeforeFilter, secondaryBeforeFilter, selectedContacts,
                fulfillmentPercentage, createdLists, propertiesUpdated,
                selections, faults >>

\* lines 978-983: Promise.all starts createHubSpotList and, with a
\* selection, the upload to the send list
Effects2Begin ==
    /\ rpc = "effects2"
    /\ createState' = "pending"
    /\ IF Len(selectedContacts) > 0
       THEN /\ UploadBegin2(listConfigs[index + 1].sendContactListId,
                            selectedContacts)
            /\ effects' = effects \cup {"send"}
       ELSE UNCHANGED << uploadVars, effects >>
    /\ rpc' = "parallel"
    /\ UNCHANGED << besideLegacy, chunkVars, remote, fetchVars, listMembers, localVars, index,
                    results, newList >>

\* lines 878-886: the list is created
CreateList2Ok ==
    /\ createState = "pending"
    /\ createState' = "ok"
    /\ newList' = NewListId(0)
    /\ listMembers' = [ l \in DOMAIN listMembers \cup {NewListId(0)} |->
                          IF l \in DOMAIN listMembers THEN listMembers[l]
                          ELSE {} ]
    /\ UNCHANGED << besideLegacy, chunkVars, remote, fetchVars, uploadVars, localVars, index,
                    results, rpc, effects >>

\* lines 887-890: createHubSpotList throws; Promise.all rejects unless it
\* has rejected already
CreateList2Fail ==
    /\ createState = "pending"
    /\ createState' = "failed"
    /\ IF rpc = "parallel"
       THEN Reject2("createHubSpotList")
       ELSE UNCHANGED << results, index, rpc >>
    /\ UNCHANGED << besideLegacy, chunkVars, remote, fetchVars, listMembers, uploadVars,
                    localVars, newList, effects >>

\* a chunk of the running upload is accepted
Upload2Ok ==
    /\ AddChunk2Ok
    /\ UNCHANGED << besideLegacy, chunkVars, remote, fetchVars, localVars, index, results,
                    rpc, newList, createState, effects >>

\* the wait after an accepted chunk of the running upload is over
Upload2Wait ==
    /\ AddChunk2Wait
    /\ UNCHANGED << besideLegacy, chunkVars, remote, fetchVars, localVars, index, results,
                    rpc, newList, createState, effects >>

\* a chunk of the running upload fails: the caller that awaits the upload
\* (line 980 or 986) throws
Upload2Fail ==
    /\ AddChunk2Fail
    /\ IF rpc \in {"parallel", "uploadNew"}
       THEN Reject2("addContactsToList")
       ELSE UNCHANGED << results, index, rpc >>
    /\ UNCHANGED << besideLegacy, chunkVars, remote, fetchVars, listMembers, localVars,
                    newList, createState, effects >>

\* lines 980-986: both promises are fulfilled; with a selection the upload to
\* the new list starts
Parallel2Done ==
    /\ rpc = "parallel"
    /\ createState = "ok"
    /\ upc \in {"idle", "returned"}
    /\ IF Len(selectedContacts) > 0
       THEN /\ UploadBegin2(newList, selectedContacts)
            /\ effects' = effects \cup {"new"}
            /\ rpc' = "uploadNew"
       ELSE /\ rpc' = "audit"
            /\ UNCHANGED << uploadVars, effects >>
    /\ UNCHANGED << besideLegacy, chunkVars, remote, fetchVars, listMembers, localVars, index,
                    results, newList, createState >>

\* lines 986-987: the upload to the new list has returned
AfterUploadNew2 ==
    /\ rpc = "uploadNew"
    /\ upc = "returned"
    /\ rpc' = "properties"
    /\ UNCHANGED << besideLegacy, chunkVars, remote, fetchVars, listMembers, uploadVars,
                    localVars, index, results, newList, createState, effects >>

\* lines 987 and 911-944: updateContactProperties of the second copy; one
\* batch request of a chunk of 100 is answered or fails
UpdateProperties2 ==
    /\ rpc = "properties"
    /\ \E ok \in BOOLEAN : PropertiesBatch(ok)
    /\ effects' = effects \cup {"properties"}
    /\ UNCHANGED << timeVars, nameVars, clonerVars, serialVars, deleteVars,
                    contactIds, propRequests, ppc,
                    chunkVars, remote, fetchVars, listMembers, uploadVars,
                    listConfigs, usedContacts, primaryContacts,
                    secondaryContacts, primaryBeforeFilter,
                    secondaryBeforeFilter, selectedContacts,
                    fulfillmentPercentage, createdLists, selections, faults,
                    index, results, newList, createState >>

\* lines 990-1017 and 1032-1033: the audit record is written and the
\* invocation returns
Audit2Ok ==
    /\ rpc = "audit"
    /\ LET counts == AllocationCounts(listConfigs[index + 1].count, newList)
       IN  /\ createdLists' = Append(createdLists, counts)
           /\ results' = Append(results, [status |-> "fulfilled", value |-> counts])
    /\ effects' = effects \cup {"audit"}
    /\ index' = index + 1
    /\ rpc' = "done"
    /\ UNCHANGED << besideLegacy, chunkVars, remote, fetchVars, listMembers, uploadVars,
                    listConfigs, usedContacts, primaryContacts,
                    secondaryContacts, primaryBeforeFilter,
                    secondaryBeforeFilter, selectedContacts,
                    fulfillmentPercentage, propertiesUpdated, selections,
                    faults, newList, createState >>

\* line 990: CreatedList.create throws
Audit2Fail ==
    /\ rpc = "audit"
    /\ effects' = effects \cup {"audit"}
    /\ Reject2("CreatedList.create")
    /\ UNCHANGED << besideLegacy, chunkVars, remote, fetchVars, listMembers, uploadVars,
                    localVars, newList, createState >>

InitEffects2 ==
    /\ OthersIdle
    /\ ChunksIdle
    /\ remote = [ l \in ListIds |-> << >> ]
    /\ FetchIdle
    /\ listMembers = [ l \in {SendListId} |-> {} ]
    /\ UploadIdle
    /\ \E n \in EffectSizes, count \in 1..(301 + MaxEffectIds) :
          /\ count \in {n, n + 1}
          /\ listConfigs = << [count |-> count, primaryListId |-> 1,
                               secondaryListId |-> NoList,
                               sendContactListId |-> SendListId] >>
          /\ primaryContacts = [ i \in 1..n |-> i ]
          /\ primaryBeforeFilter = n
          /\ selectedContacts = [ i \in 1..n |-> i ]
          /\ usedContacts = 1..n
          /\ selections = << [ i \in 1..n |-> i ] >>
          /\ fulfillmentPercentage = FulfillmentPercentage(n, count)
    /\ secondaryContacts = << >>
    /\ secondaryBeforeFilter = 0
    /\ index = 0
    /\ results = << >>
    /\ rpc = "effects2"
    /\ newList = NoList
    /\ createdLists = << >>
    /\ propertiesUpdated = {}
    /\ faults = 0

NextEffects2 ==
    \/ Effects2Begin
    \/ CreateList2Ok
    \/ CreateList2Fail
    \/ Upload2Ok
    \/ Upload2Wait
    \/ Upload2Fail
    \/ Parallel2Done
    \/ AfterUploadNew2
    \/ UpdateProperties2
    \/ Audit2Ok
    \/ Audit2Fail

SpecEffects2 == InitEffects2 /\ [][NextEffects2]_vars

-----------------------------------------------------------------------------
(* SpecSources: the fetches and the selection of one invocation of         *)
(* processSingleCampaign, lines 248-310 of the first copy and lines        *)
(* 946-976 of the second copy, for a count of -1 to 2 or of                *)
(* MaxSourceTarget, lists of up to MaxSourceId members and a used set that *)
(* is empty or holds the vid 1.                                            *)

MaxSourceId == 3        \* the lists of SpecSources hold the vids 1..p, p <= MaxSourceId

MaxSourceTarget == 200  \* the large count of SpecSources: three times it is above 500

\* lines 840-846: getContactsFromList of the second copy is called; the
\* first page is asked for unless maxCount is not above 0
Fetch2Begin(listId, m) ==
    /\ fListId' = listId
    /\ maxCount' = m
    /\ allContacts' = << >>
    /\ hasMore' = TRUE
    /\ offset' = 0
    /\ consecutiveErrors' = 0
    /\ totalAttempts' = 0
    /\ okPages' = 0
    /\ requestLog' = << >>
    /\ UNCHANGED fetchError
    /\ IF 0 < MAX_RETRIES /\ 0 < m
       THEN fpc' = "loop2" /\ UNCHANGED fetchResult
       ELSE fpc' = "returned2" /\ fetchResult' = << >>

\* line 975 of the second copy: Math.round((selected / count) * 100); a
\* selection is empty when the count is not above 0, which gives -0 for a
\* negative count and NaN for the count 0
FulfillmentPercentage2(selected, count) ==
    IF count > 0 THEN MathRound(DoubleMul(DoubleDiv(selected, count), 100))
    ELSE IF count < 0 THEN 0
    ELSE NaN

\* lines 946-952: the invocation of the second copy asks for the primary
\* list
StartCampaign2 ==
    /\ rpc = "next2"
    /\ Fetch2Begin(listConfigs[index + 1].primaryListId,
                   PrimaryFetchCount2(listConfigs[index + 1].count))
    /\ rpc' = "primary2"
    /\ UNCHANGED << otherVars, chunkVars, remote, listMembers, uploadVars,
                    listConfigs, index, usedContacts, results,
                    primaryContacts, secondaryContacts, primaryBeforeFilter,
                    secondaryBeforeFilter, selectedContacts,
                    fulfillmentPercentage, newList, createdLists,
                    propertiesUpdated, selections, faults >>

\* lines 952-964: the primary fetch has returned; its contacts are filtered
\* and the secondary list is asked for when they fall short
AfterPrimaryFetch2 ==
    /\ rpc = "primary2"
    /\ fpc = "returned2"
    /\ LET cfg == listConfigs[index + 1]
           filtered == FilterUsed(fetchResult, usedContacts)
       IN  /\ primaryBeforeFilter' = Len(fetchResult)
           /\ primaryContacts' = filtered
           /\ IF NeedSecondary(Len(filtered), cfg.count, cfg.secondaryListId)
              THEN /\ Fetch2Begin(cfg.secondaryListId,
                                  SecondaryFetchCount2(cfg.count, Len(filtered)))
                   /\ rpc' = "secondary2"
              ELSE /\ FetchReset
                   /\ rpc' = "select2"
    /\ UNCHANGED << otherVars, chunkVars, remote, listMembers, uploadVars,
                    listConfigs, index, usedContacts, results,
                    secondaryContacts, secondaryBeforeFilter,
                    selectedContacts, fulfillmentPercentage, newList,
                    createdLists, propertiesUpdated, selections, faults >>

\* lines 964-969: the secondary fetch has returned
AfterSecondaryFetch2 ==
    /\ rpc = "secondary2"
    /\ fpc = "returned2"
    /\ secondaryBeforeFilter' = Len(fetchResult)
    /\ secondaryContacts' = FilterUsed(fetchResult, usedContacts)
    /\ FetchReset
    /\ rpc' = "select2"
    /\ UNCHANGED << otherVars, chunkVars, remote, listMembers, uploadVars,
                    listConfigs, index, usedContacts, results,
                    primaryContacts, primaryBeforeFilter, selectedContacts,
                    fulfillmentPercentage, newList, createdLists,
                    propertiesUpdated, selections, faults >>

\* lines 971-976: the selection of the second copy is taken, booked and
\* measured
Select2 ==
    /\ rpc = "select2"
    /\ LET count == listConfigs[index + 1].count
           selected == SelectContacts(primaryContacts, secondaryContacts, count)
       IN  /\ selectedContacts' = selected
           /\ usedContacts' = UsedAfter(usedContacts, selected)
           /\ fulfillmentPercentage' =
                 FulfillmentPercentage2(Len(selected), count)
           /\ selections' = Append(selections, selected)
    /\ rpc' = "effects2"
    /\ UNCHANGED << otherVars, chunkVars, remote, fetchVars, listMembers,
                    uploadVars, listConfigs, index, results, primaryContacts,
                    secondaryContacts, primaryBeforeFilter,
                    secondaryBeforeFilter, newList, createdLists,
                    propertiesUpdated, faults >>

\* a page request of a fetch of the second copy is answered
Sources2FetchOk ==
    /\ rpc \in {"primary2", "secondary2"}
    /\ Fetch2Ok

\* a page request of a fetch of the second copy fails
Sources2FetchFail ==
    /\ rpc \in {"primary2", "secondary2"}
    /\ Fetch2Fail

\* the primary list holds the vids 1..p and the secondary list the vids
\* 1..s
SourceLists ==
    { [ l \in ListIds |-> IF l = 1 THEN [ i \in 1..p |-> i ]
                          ELSE [ i \in 1..s |-> i ] ] :
        p \in 0..MaxSourceId, s \in {0, MaxSourceId} }

SourceCounts == ((-1)..2) \cup {MaxSourceTarget}

InitSources ==
    /\ OthersIdle
    /\ ChunksIdle
    /\ remote \in SourceLists
    /\ FetchIdle
    /\ listMembers = [ l \in {SendListId} |-> {} ]
    /\ UploadIdle
    /\ \E count \in SourceCounts, secondary \in {NoList, 2} :
          listConfigs = << [count |-> count, primaryListId |-> 1,
                            secondaryListId |-> secondary,
                            sendContactListId |-> NoList] >>
    /\ index = 0
    /\ usedContacts \in {{}, {1}}
    /\ results = << >>
    /\ rpc \in {"next", "next2"}
    /\ CampaignLocalsIdle
    /\ createdLists = << >>
    /\ propertiesUpdated = {}
    /\ selections = << >>
    /\ faults = 0

NextSources ==
    \/ StartCampaign
    \/ RunFetchOk
    \/ RunFetchFail
    \/ AfterPrimaryFetch
    \/ AfterSecondaryFetch
    \/ Select
    \/ StartCampaign2
    \/ Sources2FetchOk
    \/ Sources2FetchFail
    \/ AfterPrimaryFetch2
    \/ AfterSecondaryFetch2
    \/ Select2

SpecSources == InitSources /\ [][NextSources]_vars

-----------------------------------------------------------------------------
(* SpecDelay: the pacing of processCampaignsWithDelay, hubspotRoute.js     *)
(* 384-411.  Time is counted in minutes; an invocation of                  *)
(* processSingleCampaign takes t minutes and returns or throws; a timer    *)
(* fires when its delay has passed.                                        *)

INTER_LIST_DELAY_MS == 3    \* HUBSPOT_INTER_LIST_DELAY_MINUTES (default 3), in minutes

MaxElapsed == 5             \* longest processSingleCampaign, in minutes

\* The delay with the processing time left out of it.
FullDelay(elapsed) == INTER_LIST_DELAY_MS

\* lines 396 and 405
DelayFor(elapsed) == Max(0, INTER_LIST_DELAY_MS - elapsed)

\* line 385: the clock is read at the start of a campaign
CampaignStarts ==
    /\ rpc = "next"
    /\ startTime' = now
    /\ starts' = Append(starts, now)
    /\ rpc' = "running"
    /\ UNCHANGED << besideTime, chunkVars, remote, fetchVars, listMembers,
                    uploadVars, localVars, index, results, newList, now,
                    delay, ends >>

\* lines 391-399 and 400-410: processSingleCampaign is over after t
\* minutes, the outcome is pushed, and unless the config was the last one
\* the timer is set
CampaignEnds(t, outcome) ==
    /\ rpc = "running"
    /\ now' = now + t
    /\ ends' = Append(ends, now + t)
    /\ results' = Append(results, outcome)
    /\ IF index < Len(listConfigs) - 1
       THEN /\ delay' = DelayFor((now + t) - startTime)
            /\ rpc' = "waiting"
            /\ index' = index
       ELSE /\ delay' = delay
            /\ rpc' = "done"
            /\ index' = index + 1
    /\ UNCHANGED << besideTime, chunkVars, remote, fetchVars, listMembers,
                    uploadVars, localVars, newList, startTime, starts >>

CampaignFulfilled ==
    \E t \in 0..MaxElapsed :
        CampaignEnds(t, [status |-> "fulfilled",
                         value |-> [listId |-> NewListId(index)]])

CampaignRejected ==
    \E t \in 0..MaxElapsed :
        CampaignEnds(t, [status |-> "rejected", reason |-> "createHubSpotList"])

\* lines 398 and 408: the timer fires and the loop takes the next config
TimerFires ==
    /\ rpc = "waiting"
    /\ now' = now + delay
    /\ index' = index + 1
    /\ rpc' = "next"
    /\ UNCHANGED << besideTime, chunkVars, remote, fetchVars, listMembers,
                    uploadVars, localVars, results, newList, startTime, delay,
                    starts, ends >>

InitDelay ==
    /\ OthersIdle
    /\ ChunksIdle
    /\ remote = [ l \in ListIds |-> << >> ]
    /\ FetchIdle
    /\ listMembers = [ l \in {SendListId} |-> {} ]
    /\ UploadIdle
    /\ \E n \in 1..MaxCampaigns :
          listConfigs = [ i \in 1..n |->
                            [count |-> 1, primaryListId |-> 1,
                             secondaryListId |-> NoList,
                             sendContactListId |-> NoList] ]
    /\ index = 0
    /\ usedContacts = {}
    /\ results = << >>
    /\ rpc = "next"
    /\ CampaignLocalsIdle
    /\ createdLists = << >>
    /\ propertiesUpdated = {}
    /\ selections = << >>
    /\ faults = 0

NextDelay ==
    \/ CampaignStarts
    \/ CampaignFulfilled
    \/ CampaignRejected
    \/ TimerFires

SpecDelay == InitDelay /\ [][NextDelay]_vars

-----------------------------------------------------------------------------
(* EmailCloner, part_000 308-560: the slot and the name of one clone.      *)
(* A name is the text before the first DD MMM YYYY date, the date and the  *)
(* text after it; a date is [dd, mon, yyyy].                               *)

MAX_MORNING_SLOTS == 12

NoDate == [dd |-> 0, mon |-> "", yyyy |-> 0]

\* the month names the date parser of new Date(string) knows
MonthNames == << "Jan", "Feb", "Mar", "Apr", "May", "Jun", "Jul", "Aug",
                 "Sep", "Oct", "Nov", "Dec" >>

\* month: "short" of the locale en-GB
LocaleMonths == << "Jan", "Feb", "Mar", "Apr", "May", "Jun", "Jul", "Aug",
                   "Sept", "Oct", "Nov", "Dec" >>

Capital ==
    [a |-> "A", b |-> "B", c |-> "C", d |-> "D", e |-> "E", f |-> "F",
     g |-> "G", h |-> "H", i |-> "I", j |-> "J", k |-> "K", l |-> "L",
     m |-> "M", n |-> "N", o |-> "O", p |-> "P", q |-> "Q", r |-> "R",
     s |-> "S", t |-> "T", u |-> "U", v |-> "V", w |-> "W", x |-> "X",
     y |-> "Y", z |-> "Z"]

\* a word of three small letters written with small and capital letters
Spellings(w) ==
    { x \o y \o z : x \in {w[1], Capital[w[1]]}, y \in {w[2], Capital[w[2]]},
                    z \in {w[3], Capital[w[3]]} }

\* the parser of new Date(string) reads a month name whatever the case of
\* its letters
MonthSpellings ==
    [ m \in 1..12 |->
        Spellings(<< << "j", "a", "n" >>, << "f", "e", "b" >>,
                     << "m", "a", "r" >>, << "a", "p", "r" >>,
                     << "m", "a", "y" >>, << "j", "u", "n" >>,
                     << "j", "u", "l" >>, << "a", "u", "g" >>,
                     << "s", "e", "p" >>, << "o", "c", "t" >>,
                     << "n", "o", "v" >>, << "d", "e", "c" >> >>[m]) ]

\* the names of time zones that are words of three letters
ZoneSpellings ==
    UNION { Spellings(w) :
              w \in { << "u", "t", "c" >>, << "g", "m", "t" >>,
                      << "e", "s", "t" >>, << "e", "d", "t" >>,
                      << "c", "s", "t" >>, << "c", "d", "t" >>,
                      << "m", "s", "t" >>, << "m", "d", "t" >>,
                      << "p", "s", "t" >>, << "p", "d", "t" >> } }

\* the decimal digits
Digit == [ d \in 0..9 |-> << "0", "1", "2", "3", "4", "5", "6", "7", "8",
                             "9" >>[d + 1] ]

\* the spellings of the zone names Z and UT
ZuluSpellings == { "z", "Z" }

UtSpellings == { "ut", "uT", "Ut", "UT" }

\* the words of three word characters the parser of new Date(string) reads
\* as the number n alone: three digits, or fewer digits beside the names Z
\* or UT, which a digit ends and which set the zone
NumberWords ==
    [ n \in 0..999 |->
        { Digit[n \div 100] \o Digit[(n \div 10) % 10] \o Digit[n % 10] }
        \cup (IF n < 100
              THEN UNION { { z \o Digit[n \div 10] \o Digit[n % 10],
                             Digit[n \div 10] \o Digit[n % 10] \o z } :
                           z \in ZuluSpellings }
              ELSE {})
        \cup (IF n < 10
              THEN UNION { { u \o Digit[n], Digit[n] \o u } :
                           u \in UtSpellings }
                   \cup { y \o Digit[n] \o z :
                            y \in ZuluSpellings, z \in ZuluSpellings }
              ELSE {}) ]

\* the number the word is read as, -1 when it is not read as one number
WordNumber(mon) ==
    IF \E n \in 0..999 : mon \in NumberWords[n]
    THEN CHOOSE n \in 0..999 : mon \in NumberWords[n]
    ELSE -1

\* the number of the month the word names, 0 when it names none
MonthNumber(mon) ==
    IF \E m \in 1..12 : mon \in MonthSpellings[m]
    THEN CHOOSE m \in 1..12 : mon \in MonthSpellings[m]
    ELSE 0

\* the day number of a calendar date (days since 1 Jan 1970), as new Date
\* and setDate count days
DayFromDate(y, m, d) ==
    LET yy == IF m <= 2 THEN y - 1 ELSE y
        era == yy \div 400
        yoe == yy - (era * 400)
        mp == IF m > 2 THEN m - 3 ELSE m + 9
        doy == (((153 * mp) + 2) \div 5) + (d - 1)
        doe == (yoe * 365) + (yoe \div 4) - (yoe \div 100) + doy
    IN  (era * 146097) + doe - 719468

\* the calendar date of a day number, as toLocaleDateString reads it
DateFromDay(z) ==
    LET zz == z + 719468
        era == zz \div 146097
        doe == zz - (era * 146097)
        yoe == (doe - (doe \div 1460) + (doe \div 36524) - (doe \div 146096)) \div 365
        doy == doe - ((365 * yoe) + (yoe \div 4) - (yoe \div 100))
        mp == ((5 * doy) + 2) \div 153
        d == doy - (((153 * mp) + 2) \div 5) + 1
        m == IF mp < 10 THEN mp + 3 ELSE mp - 9
        y == yoe + (era * 400)
    IN  [dd |-> d, m |-> m, yyyy |-> IF m <= 2 THEN y + 1 ELSE y]

\* the time value of a Date: a day number, or NaN for an Invalid Date
DayValue(z) == [nan |-> FALSE, day |-> z]

\* what toLocaleDateString gives for an Invalid Date
InvalidDate == [dd |-> 0, mon |-> "Invalid Date", yyyy |-> 0]

IsDay(x) == x \in 1..31

IsMonth(x) == x \in 1..12

\* the parser reads the years 0 to 49 as 2000 to 2049 and the years 50 to
\* 99 as 1950 to 1999
FullYear(y) ==
    IF y \in 0..49 THEN y + 2000 ELSE IF y \in 50..99 THEN y + 1900 ELSE y

\* line 450: new Date(dateMatch[0]) for the text dd mon yyyy that the pattern
\* of line 446 has matched, mon being three word characters (letters,
\* digits, "_"): local midnight of the date the parser of V8 reads. With a
\* month name a first number that is no day of a month is the year and the
\* second number the day; with a word read as a number the three numbers
\* are month/day/year, or year/month/day when the first number is no day;
\* with the name of a time zone the two numbers are month/day of the year
\* 2001, or year/month when the first number is no day (the process runs in
\* UTC, where the midnight of each of the zones falls on the same day);
\* with any other word (a letter beside a digit that names no zone, "_",
\* two numbers in the word), or a month or day out of range, the Date is
\* invalid. A day beyond the end of its month runs into the next month.
ParseDate(date) ==
    LET m == MonthNumber(date.mon)
        n == WordNumber(date.mon)
        read == IF m # 0
                THEN IF IsDay(date.dd)
                     THEN [year |-> date.yyyy, month |-> m, day |-> date.dd]
                     ELSE [year |-> date.dd, month |-> m, day |-> date.yyyy]
                ELSE IF n # -1
                THEN IF IsDay(date.dd)
                     THEN [year |-> date.yyyy, month |-> date.dd, day |-> n]
                     ELSE [year |-> date.dd, month |-> n, day |-> date.yyyy]
                ELSE IF IsDay(date.dd)
                     THEN [year |-> 1, month |-> date.dd, day |-> date.yyyy]
                     ELSE [year |-> date.dd, month |-> date.yyyy, day |-> 1]
    IN  IF (m = 0 /\ n = -1 /\ date.mon \notin ZoneSpellings)
           \/ ~IsMonth(read.month) \/ ~IsDay(read.day)
        THEN NaN
        ELSE DayValue(DayFromDate(FullYear(read.year), read.month, read.day))

\* lines 454-461: toLocaleDateString("en-GB", ...), "," removed, "Sept" -> "Sep"
FormatDate(z) ==
    IF z.nan THEN InvalidDate
    ELSE LET civil == DateFromDay(z.day)
             short == LocaleMonths[civil.m]
         IN  [dd |-> civil.dd,
              mon |-> IF short = "Sept" THEN "Sep" ELSE short,
              yyyy |-> civil.yyyy]

\* a || b on numbers
OrDefault(v, d) == IF v = 0 THEN d ELSE v

NoCounters == [morning |-> 0, afternoon |-> 0, custom |-> 0, emailIndex |-> 0]

\* lines 370-373: minutes of 60 and more are carried into the hour
Carry(hour, minute) ==
    IF minute >= 60
    THEN [hour |-> hour + (minute \div 60), minute |-> minute % 60]
    ELSE [hour |-> hour, minute |-> minute]

\* lines 386-423: the slot of strategy "custom"
CustomSlot(opts, customTimeCounter) ==
    LET startHour == OrDefault(opts.customStartHour, 11)
        startMinute == OrDefault(opts.customStartMinute, 0)
        interval == OrDefault(opts.customInterval, 5)
        scheduledTotalMinutes ==
            ((startHour * 60) + startMinute) + (customTimeCounter * interval)
        scheduledHour == scheduledTotalMinutes \div 60
        scheduledMinute == scheduledTotalMinutes % 60
        morningSlots == 56 \div interval
    IN  IF scheduledHour = 11 /\ scheduledMinute <= 55
        THEN [hour |-> scheduledHour, minute |-> scheduledMinute]
        ELSE IF scheduledHour < 11 \/ (scheduledHour = 11 /\ scheduledMinute <= 55)
        THEN IF customTimeCounter * interval > 55
             THEN Carry(16, (customTimeCounter * interval) - 55 - 1)
             ELSE [hour |-> 11, minute |-> customTimeCounter * interval]
        ELSE Carry(16, (customTimeCounter - morningSlots) * interval)

\* lines 362-443: hour and minute of the next email of the day
Slot(strategy, opts, c) ==
    CASE strategy = "morning" -> Carry(11, c.morning)
      [] strategy = "afternoon" -> Carry(16, c.afternoon)
      [] strategy = "custom" -> CustomSlot(opts, c.custom)
      [] OTHER -> IF c.emailIndex < MAX_MORNING_SLOTS
                  THEN Carry(11, c.morning)
                  ELSE Carry(16, c.afternoon)

\* lines 362-443: the counters after that email
Count(strategy, c) ==
    CASE strategy = "morning" -> [c EXCEPT !.morning = @ + 5]
      [] strategy = "afternoon" -> [c EXCEPT !.afternoon = @ + 5]
      [] strategy = "custom" -> [c EXCEPT !.custom = @ + 1]
      [] OTHER -> IF c.emailIndex < MAX_MORNING_SLOTS
                  THEN [c EXCEPT !.morning = @ + 5, !.emailIndex = @ + 1]
                  ELSE [c EXCEPT !.afternoon = @ + 5, !.emailIndex = @ + 1]

\* lines 347-350 and 353: the counters when k emails of the day have a slot
RECURSIVE CountersAfter(_, _)
CountersAfter(strategy, k) ==
    IF k = 0 THEN NoCounters ELSE Count(strategy, CountersAfter(strategy, k - 1))

\* lines 450-452: the day number of clonedDate; setHours carries hours of 24
\* and more, and minutes below 0, into the date
ClonedDay(date, day, slot) ==
    IF ParseDate(date).nan THEN NaN
    ELSE DayValue(ParseDate(date).day + day
                     + (((slot.hour * 60) + slot.minute) \div 1440))

\* lines 446-463: newEmailName, or NoName when the name has no date
DestinationName(name, day, slot) ==
    IF name.date = NoDate THEN NoName
    ELSE [name EXCEPT !.date = FormatDate(ClonedDay(name.date, day, slot))]

-----------------------------------------------------------------------------
(* SpecName: the destination name of one (day, source) pair *)

MaxDay == 3             \* largest day offset (cloningCount)
MaxSlot == 13           \* emails of the day ahead of the source

Strategies == {"morning", "afternoon", "custom", "smart"}

\* no custom options, a custom schedule of one email an hour from 12:00,
\* one of an email every 5 minutes from 16:00 and one from 10:30
CustomOptions ==
    { [customStartHour |-> 0, customStartMinute |-> 0, customInterval |-> 0],
      [customStartHour |-> 12, customStartMinute |-> 0, customInterval |-> 60],
      [customStartHour |-> 16, customStartMinute |-> 0, customInterval |-> 5],
      [customStartHour |-> 10, customStartMinute |-> 30, customInterval |-> 5] }

SourceDates ==
    { [dd |-> 5, mon |-> "Mar", yyyy |-> 2025],
      [dd |-> 5, mon |-> "mar", yyyy |-> 2025],
      [dd |-> 32, mon |-> "Jan", yyyy |-> 2025],
      [dd |-> 0, mon |-> "Mar", yyyy |-> 2025],
      [dd |-> 5, mon |-> "Xyz", yyyy |-> 2025],
      [dd |-> 5, mon |-> "Mar", yyyy |-> 99],
      [dd |-> 5, mon |-> "Mar", yyyy |-> 49],
      [dd |-> 45, mon |-> "Mar", yyyy |-> 12],
      [dd |-> 5, mon |-> "GMT", yyyy |-> 12],
      [dd |-> 5, mon |-> "012", yyyy |-> 2025],
      [dd |-> 5, mon |-> "z12", yyyy |-> 2025],
      [dd |-> 5, mon |-> "1ut", yyyy |-> 2025],
      [dd |-> 45, mon |-> "012", yyyy |-> 5],
      [dd |-> 5, mon |-> "032", yyyy |-> 2025],
      [dd |-> 13, mon |-> "012", yyyy |-> 2025],
      [dd |-> 5, mon |-> "a_b", yyyy |-> 2025],
      [dd |-> 5, mon |-> "1ab", yyyy |-> 2025],
      [dd |-> 5, mon |-> "1z2", yyyy |-> 2025],
      [dd |-> 31, mon |-> "Feb", yyyy |-> 2025],
      [dd |-> 27, mon |-> "Feb", yyyy |-> 2024],
      [dd |-> 27, mon |-> "Feb", yyyy |-> 2025],
      [dd |-> 29, mon |-> "Sep", yyyy |-> 2025],
      [dd |-> 31, mon |-> "Aug", yyyy |-> 2025],
      [dd |-> 30, mon |-> "Dec", yyyy |-> 2025],
      [dd |-> 28, mon |-> "Feb", yyyy |-> 2100] }

InitName ==
    /\ ChunksIdle
    /\ remote = [ l \in ListIds |-> << >> ]
    /\ FetchIdle
    /\ listMembers = [ l \in {SendListId} |-> {} ]
    /\ UploadIdle
    /\ RunIdle
    /\ DeleteIdle
    /\ LegacyIdle
    /\ TimeIdle
    /\ ClonerIdle
    /\ PropsIdle
    /\ SerialIdle
    /\ \E date \in SourceDates, day \in 1..MaxDay, strategy \in Strategies,
          opts \in CustomOptions, k \in 0..MaxSlot :
          /\ strategy # "custom" =>
                opts = [customStartHour |-> 0, customStartMinute |-> 0,
                        customInterval |-> 0]
          /\ nameArgs = [originalEmailName |->
                            [before |-> "Acme - ", date |-> date, after |-> ""],
                         day |-> day, strategy |-> strategy, opts |-> opts,
                         slot |-> k]
    /\ newEmailName = NoName
    /\ scheduled = NoName

\* lines 362-463 for one email of one day
ComputeName ==
    /\ nameArgs # NoName
    /\ newEmailName = NoName
    /\ LET slot == Slot(nameArgs.strategy, nameArgs.opts,
                        CountersAfter(nameArgs.strategy, nameArgs.slot))
       IN  /\ scheduled' = slot
           /\ newEmailName' =
                 DestinationName(nameArgs.originalEmailName, nameArgs.day, slot)
    /\ UNCHANGED << besideName, chunkVars, remote, fetchVars, listMembers,
                    uploadVars, runVars, nameArgs >>

NextName == ComputeName

SpecName == InitName /\ [][NextName]_vars

-----------------------------------------------------------------------------
(* SpecClone: one run of EmailCloner(emailIds, cloningCount), part_000     *)
(* 308-560, after the cache was cleared at line 711; strategy "smart".     *)

MaxEmails == 2          \* longest emailIds
MaxCloningCount == 3    \* largest cloningCount
MaxCloneFaults == 1     \* most failed requests in one run of SpecClone

CHECK_BATCH_SIZE == 5   \* line 30
BATCH_SIZE == 3

NoOptions == [customStartHour |-> 0, customStartMinute |-> 0,
              customInterval |-> 0]

Acme(dd, mon, yyyy) ==
    [before |-> "Acme - ", date |-> [dd |-> dd, mon |-> mon, yyyy |-> yyyy],
     after |-> ""]

\* the names of the emails 1 to 4 of the remote API; the third has no date
\* and the date of the fourth cannot be read
SourceEmails ==
    << Acme(30, "Dec", 2025), Acme(31, "Dec", 2025),
       [before |-> "Welcome", date |-> NoDate, after |-> ""],
       Acme(32, "Jan", 2025) >>

Put(map, k, v) ==
    [ x \in DOMAIN map \cup {k} |-> IF x = k THEN v ELSE map[x] ]

nonClonerVars == << besideCloner, chunkVars, remote, fetchVars, listMembers,
                    uploadVars, runVars, lookups, lookupLog, served, reqs >>

\* line 353: how many of the emails of the day ahead of index i (from 1)
\* have a name, and so have taken a slot
SlotsTaken(ids, info, i) ==
    Cardinality({ j \in 1..(i - 1) : ids[j] \in DOMAIN info })

\* lines 346-463: newEmailName of the p-th (day, email) pair, the pairs
\* counted from 1 in the order of the two loops; NoName when the email has
\* no name or the name no date
PairName(ids, info, strategy, p) ==
    LET day == ((p - 1) \div Len(ids)) + 1
        i == ((p - 1) % Len(ids)) + 1
    IN  IF ids[i] \notin DOMAIN info THEN NoName
        ELSE DestinationName(info[ids[i]], day,
                 Slot(strategy, NoOptions,
                      CountersAfter(strategy, SlotsTaken(ids, info, i))))

\* lines 466-473: the schedule of the p-th pair
PairSchedule(ids, info, strategy, p) ==
    LET day == ((p - 1) \div Len(ids)) + 1
        i == ((p - 1) % Len(ids)) + 1
        slot == Slot(strategy, NoOptions,
                     CountersAfter(strategy, SlotsTaken(ids, info, i)))
    IN  [originalEmailId |-> ids[i], day |-> day, hour |-> slot.hour,
         minute |-> slot.minute,
         scheduledDay |-> ClonedDay(info[ids[i]].date, day, slot),
         originalEmailName |-> info[ids[i]]]

\* lines 346-481: emailNamesToCheck, emailScheduleMap (the last pair of a
\* name overwrites the earlier ones) and the two counters
GenDays(ids, info, strategy, count) ==
    LET pairs == 1..(count * Len(ids))
        all == [ p \in pairs |-> PairName(ids, info, strategy, p) ]
        names == SelectSeq(all, LAMBDA x : x # NoName)
    IN  [names |-> names,
         schedule |->
            [ n \in Range(names) |->
                PairSchedule(ids, info, strategy,
                    CHOOSE p \in pairs :
                        /\ all[p] = n
                        /\ \A q \in pairs : all[q] = n => q <= p) ],
         errors |-> Cardinality({ p \in pairs : all[p] = NoName }),
         totalAttempted |->
            Cardinality({ p \in pairs :
                            ids[((p - 1) % Len(ids)) + 1] \in DOMAIN info })]

\* A name counts as a duplicate only when the remote search found it.
IsDuplicateRemoteOnly(name, cache, db, hub) ==
    name \in DOMAIN hub /\ hub[name]

\* A name counts as a duplicate only when the cache of the request holds it.
IsDuplicateCacheOnly(name, cache, db, hub) == name \in cache

\* line 497
IsDuplicate(name, cache, db, hub) ==
    \/ name \in cache
    \/ name \in db
    \/ (name \in DOMAIN hub /\ hub[name])

\* The cache left as it was.
CacheForgetting(cache, name) == cache

\* line 502
CacheAdd(cache, name) == cache \cup {name}

\* lines 497-502: the cache when the filter comes to index k: every name
\* ahead of k that was no duplicate has been added
CacheAt(names, k, cache, db, hub) ==
    cache \cup UNION { CacheAdd(cache, names[j]) \ cache :
                         j \in { i \in 1..(k - 1) :
                                   ~IsDuplicate(names[i], cache, db, hub) } }

\* lines 496-504: the filter over emailNamesToCheck
FilterAll(names, cache, db, hub) ==
    LET keep == { k \in 1..Len(names) :
                    ~IsDuplicate(names[k], CacheAt(names, k, cache, db, hub),
                                 db, hub) }
        marked == [ k \in 1..Len(names) |-> [name |-> names[k], keep |-> k \in keep] ]
        kept == SelectSeq(marked, LAMBDA x : x.keep)
    IN  [kept |-> [ k \in 1..Len(kept) |-> kept[k].name ],
         cache |-> CacheAt(names, Len(names) + 1, cache, db, hub),
         skipped |-> Len(names) - Cardinality(keep)]

\* Every remaining index taken as one group.
BatchOfAll(len, i, size) == (i + 1)..len

\* lines 31 and 511: the indexes (from 1) of the batch that starts after i
BatchOf(len, i, size) == (i + 1)..Min(i + size, len)

\* One failed request making every name of the batch count as not existing.
CheckResultsAllOrNone(names, batch, failing, found, map) ==
    [ n \in DOMAIN map |->
        IF \E k \in batch : names[k] = n
        THEN failing = {} /\ n \in found
        ELSE map[n] ]

\* lines 33-57: existsMap after the answers to one batch; the requests of
\* the indexes in failing fail
CheckResults(names, batch, failing, found, map) ==
    [ n \in DOMAIN map |->
        IF \E k \in batch : names[k] = n
        THEN LET last == CHOOSE k \in batch :
                            /\ names[k] = n
                            /\ \A j \in batch : names[j] = n => j <= k
             IN  last \notin failing /\ n \in found
        ELSE map[n] ]

\* lines 529-540: the results of the batch from index j on
RECURSIVE Collect(_, _, _, _)
Collect(res, j, last, st) ==
    IF j > last THEN st
    ELSE Collect(res, j + 1, last,
            IF res[j].success
            THEN [st EXCEPT !.successfullyCloned = @ + 1,
                            !.clonedEmails = Append(@, res[j].emailName)]
            ELSE [st EXCEPT !.errors = @ + 1])

\* lines 324-335: the name of the next email id is fetched
GetInfoOk ==
    /\ epc = "info"
    /\ ei < Len(emailIds)
    /\ emailInfoMap' = Put(emailInfoMap, emailIds[ei + 1],
                           SourceEmails[emailIds[ei + 1]])
    /\ ei' = ei + 1
    /\ UNCHANGED << nonClonerVars, remoteClones, emailIds, cloningCount, stats,
                    emailNamesToCheck, emailScheduleMap, store, remoteNames,
                    dbDuplicateNames, hubspotDuplicates, processedEmailsCache,
                    emailsToProcess, pending, stage, batchResults, cloneCalls, epc,
                    cloneFaults >>

\* lines 336-339: the request for the name fails
GetInfoFail ==
    /\ epc = "info"
    /\ ei < Len(emailIds)
    /\ cloneFaults < MaxCloneFaults
    /\ cloneFaults' = cloneFaults + 1
    /\ stats' = [stats EXCEPT !.errors = @ + 1]
    /\ ei' = ei + 1
    /\ UNCHANGED << nonClonerVars, remoteClones, emailIds, cloningCount, emailInfoMap,
                    emailNamesToCheck, emailScheduleMap, store, remoteNames,
                    dbDuplicateNames, hubspotDuplicates, processedEmailsCache,
                    emailsToProcess, pending, stage, batchResults, cloneCalls, epc >>

\* lines 342-485: the names and schedules of every (day, email) pair
GenerateNames ==
    /\ epc = "info"
    /\ ei = Len(emailIds)
    /\ LET gen == GenDays(emailIds, emailInfoMap, "smart", cloningCount)
       IN  /\ emailNamesToCheck' = gen.names
           /\ emailScheduleMap' = gen.schedule
           /\ stats' = [stats EXCEPT !.errors = @ + gen.errors,
                                     !.totalAttempted = @ + gen.totalAttempted]
    /\ epc' = "dbFind"
    /\ UNCHANGED << nonClonerVars, remoteClones, emailIds, cloningCount, emailInfoMap, store,
                    remoteNames, dbDuplicateNames, hubspotDuplicates,
                    processedEmailsCache, emailsToProcess, ei, pending, stage,
                    batchResults, cloneCalls, cloneFaults >>

\* lines 485-493 and 17-26: the names the store holds; existsMap is set up
DbFindOk ==
    /\ epc = "dbFind"
    /\ dbDuplicateNames' = store \cap Range(emailNamesToCheck)
    /\ hubspotDuplicates' = [ n \in Range(emailNamesToCheck) |-> FALSE ]
    /\ ei' = 0
    /\ epc' = "check"
    /\ UNCHANGED << nonClonerVars, remoteClones, emailIds, cloningCount, emailInfoMap, stats,
                    emailNamesToCheck, emailScheduleMap, store, remoteNames,
                    processedEmailsCache, emailsToProcess, pending, stage,
                    batchResults, cloneCalls, cloneFaults >>

\* lines 485 and 553-559: the query fails and EmailCloner gives up
DbFindFail ==
    /\ epc = "dbFind"
    /\ cloneFaults < MaxCloneFaults
    /\ cloneFaults' = cloneFaults + 1
    /\ epc' = "failed"
    /\ UNCHANGED << nonClonerVars, remoteClones, emailIds, cloningCount, emailInfoMap, stats,
                    emailNamesToCheck, emailScheduleMap, store, remoteNames,
                    dbDuplicateNames, hubspotDuplicates, processedEmailsCache,
                    emailsToProcess, ei, pending, stage, batchResults, cloneCalls >>

\* lines 30-63: the searches of one batch of names answer or fail
CheckBatch ==
    /\ epc = "check"
    /\ ei < Len(emailNamesToCheck)
    /\ LET batch == BatchOf(Len(emailNamesToCheck), ei, CHECK_BATCH_SIZE)
       IN  \E failing \in SUBSET batch :
              /\ cloneFaults + Cardinality(failing) <= MaxCloneFaults
              /\ cloneFaults' = cloneFaults + Cardinality(failing)
              /\ hubspotDuplicates' =
                    CheckResults(emailNamesToCheck, batch, failing,
                                 remoteNames, hubspotDuplicates)
    /\ ei' = ei + CHECK_BATCH_SIZE
    /\ UNCHANGED << nonClonerVars, remoteClones, emailIds, cloningCount, emailInfoMap, stats,
                    emailNamesToCheck, emailScheduleMap, store, remoteNames,
                    dbDuplicateNames, processedEmailsCache, emailsToProcess,
                    pending, stage, batchResults, cloneCalls, epc >>

\* lines 511-525 and 563-577: the clones of the batch after index i begin.
\* A call whose scheduledTime is an Invalid Date ends at line 574, where
\* toISOString throws, before it has sent a request; the other calls send
\* the read of their original
BeginBatch(toProcess, i) ==
    LET batch == BatchOf(Len(toProcess), i, BATCH_SIZE)
        thrown == { j \in batch :
                      emailScheduleMap[toProcess[j]].scheduledDay.nan }
    IN  /\ ei' = i
        /\ pending' = batch \ thrown
        /\ stage' = [ j \in batch \ thrown |-> "get" ]
        /\ batchResults' = [ j \in thrown |-> [success |-> FALSE] ]
        /\ cloneCalls' = cloneCalls \o
                            [ k \in 1..Cardinality(batch) |-> toProcess[i + k] ]

\* lines 496-525: the duplicates are filtered out and the first batch begins
FilterNames ==
    /\ epc = "check"
    /\ ei >= Len(emailNamesToCheck)
    /\ LET f == FilterAll(emailNamesToCheck, processedEmailsCache,
                          dbDuplicateNames, hubspotDuplicates)
       IN  /\ emailsToProcess' = f.kept
           /\ processedEmailsCache' = f.cache
           /\ stats' = [stats EXCEPT !.duplicatesSkipped = @ + f.skipped]
           /\ BeginBatch(f.kept, 0)
           /\ epc' = IF f.kept = << >> THEN "done" ELSE "cloning"
    /\ UNCHANGED << nonClonerVars, remoteClones, emailIds, cloningCount, emailInfoMap,
                    emailNamesToCheck, emailScheduleMap, store, remoteNames,
                    dbDuplicateNames, hubspotDuplicates, cloneFaults >>

\* The record of a clone written although the clone was never renamed.
StoreAfterUnrenamed(st, emailName, outcome) ==
    IF outcome \in {"ok", "updateFails"} THEN st \cup {emailName} ELSE st

\* lines 577-648: the ClonedEmail records once the call has ended
StoreAfter(st, emailName, outcome) ==
    IF outcome = "ok" THEN st \cup {emailName} ELSE st

\* lines 577-645: the requests a call awaits one after the other: the read
\* of the original, the clone, the update of the clone, the save of the record
NextStage(stg, ok) ==
    CASE ok /\ stg = "get" -> "clone"
      [] ok /\ stg = "clone" -> "put"
      [] ok /\ stg = "put" -> "save"
      [] OTHER -> "ended"

\* lines 645-665: how a call has ended when the request of stage stg was its
\* last one
Outcome(stg, ok) ==
    CASE stg = "get" -> "getFails"
      [] stg = "clone" -> "cloneFails"
      [] stg = "put" -> "updateFails"
      [] OTHER -> IF ok THEN "ok" ELSE "saveFails"

\* lines 629-634: the names of the emails at HubSpot after the answer to
\* the request of stage stg
RemoteAfter(names, emailName, stg, ok) ==
    IF stg = "put" /\ ok THEN names \cup {emailName} ELSE names

\* one clone at HubSpot, under the name of its original or renamed
OneClone(emailName, renamed) ==
    SetToBag({[emailName |-> emailName, renamed |-> renamed]})

\* lines 594-634: the clones made by the run after the answer to the request
\* of stage stg: the clone is made under the name of the original and
\* renamed by the update
ClonesAfter(clones, emailName, stg, ok) ==
    CASE stg = "clone" /\ ok -> clones (+) OneClone(emailName, FALSE)
      [] stg = "put" /\ ok ->
            (clones (-) OneClone(emailName, FALSE)) (+) OneClone(emailName, TRUE)
      [] OTHER -> clones

\* The call reporting a failure when the record could not be saved.
CloneReturnSavedOnly(emailName, outcome) ==
    IF outcome = "ok"
    THEN [success |-> TRUE, emailName |-> emailName]
    ELSE [success |-> FALSE]

\* lines 652-665: what the call returns
CloneReturn(emailName, outcome) ==
    IF outcome \in {"ok", "saveFails"}
    THEN [success |-> TRUE, emailName |-> emailName]
    ELSE [success |-> FALSE]

\* lines 563-666: the request of stage stg that a call of the batch awaits
\* is answered (ok) or fails; the call sends its next request or ends
CloneCall(stg, ok) ==
    /\ epc = "cloning"
    /\ ~ok => cloneFaults < MaxCloneFaults
    /\ cloneFaults' = IF ok THEN cloneFaults ELSE cloneFaults + 1
    /\ \E j \in pending :
          /\ stage[j] = stg
          /\ remoteNames' = RemoteAfter(remoteNames, emailsToProcess[j], stg, ok)
          /\ remoteClones' =
                ClonesAfter(remoteClones, emailsToProcess[j], stg, ok)
          /\ IF NextStage(stg, ok) = "ended"
             THEN /\ pending' = pending \ {j}
                  /\ stage' = [ k \in pending \ {j} |-> stage[k] ]
                  /\ store' = StoreAfter(store, emailsToProcess[j],
                                         Outcome(stg, ok))
                  /\ batchResults' =
                        Put(batchResults, j,
                            CloneReturn(emailsToProcess[j], Outcome(stg, ok)))
             ELSE /\ stage' = [stage EXCEPT ![j] = NextStage(stg, ok)]
                  /\ UNCHANGED << pending, store, batchResults >>
    /\ UNCHANGED << nonClonerVars, emailIds, cloningCount, emailInfoMap, stats,
                    emailNamesToCheck, emailScheduleMap, dbDuplicateNames,
                    hubspotDuplicates, processedEmailsCache, emailsToProcess,
                    ei, cloneCalls, epc >>

\* lines 577-634: the original is read, the clone is made or the clone is
\* renamed, and the call sends its next request
CloneStep ==
    /\ epc = "cloning"
    /\ \E stg \in {"get", "clone", "put"} : CloneCall(stg, TRUE)

\* lines 636-657: the record of a renamed clone is saved and the call
\* returns success
CloneOk ==
    /\ epc = "cloning"
    /\ CloneCall("save", TRUE)

\* lines 636-657: the clone is made and renamed, the record is not saved
CloneUnsaved ==
    /\ epc = "cloning"
    /\ CloneCall("save", FALSE)

\* lines 577-610 and 658-665: the original is not read or not cloned
CloneFail ==
    /\ epc = "cloning"
    /\ \E stg \in {"get", "clone"} : CloneCall(stg, FALSE)

\* lines 594-634 and 658-665: the clone is made and its update fails
CloneUpdateFail ==
    /\ epc = "cloning"
    /\ CloneCall("put", FALSE)

\* lines 527-552: the results of the batch are counted
BatchDone ==
    /\ epc = "cloning"
    /\ pending = {}
    /\ stats' = Collect(batchResults, ei + 1,
                        Min(ei + BATCH_SIZE, Len(emailsToProcess)), stats)
    /\ epc' = IF ei + BATCH_SIZE < Len(emailsToProcess) THEN "delay" ELSE "done"
    /\ UNCHANGED << nonClonerVars, remoteClones, emailIds, cloningCount, emailInfoMap,
                    emailNamesToCheck, emailScheduleMap, store, remoteNames,
                    dbDuplicateNames, hubspotDuplicates, processedEmailsCache,
                    emailsToProcess, ei, pending, stage, batchResults, cloneCalls,
                    cloneFaults >>

\* lines 510-525 and 544: after the delay the next batch begins
NextBatch ==
    /\ epc = "delay"
    /\ BeginBatch(emailsToProcess, ei + BATCH_SIZE)
    /\ epc' = "cloning"
    /\ UNCHANGED << nonClonerVars, remoteClones, emailIds, cloningCount, emailInfoMap, stats,
                    emailNamesToCheck, emailScheduleMap, store, remoteNames,
                    dbDuplicateNames, hubspotDuplicates, processedEmailsCache,
                    emailsToProcess, cloneFaults >>

InitClone ==
    /\ ChunksIdle
    /\ remote = [ l \in ListIds |-> << >> ]
    /\ FetchIdle
    /\ listMembers = [ l \in {SendListId} |-> {} ]
    /\ UploadIdle
    /\ RunIdle
    /\ DeleteIdle
    /\ LegacyIdle
    /\ TimeIdle
    /\ NameIdle
    /\ PropsIdle
    /\ SerialIdle
    /\ emailIds \in UNION { [1..n -> 1..Len(SourceEmails)] : n \in 1..MaxEmails }
    /\ cloningCount \in 1..MaxCloningCount
    /\ emailInfoMap = EmptyMap
    /\ stats = NoStats
    /\ emailNamesToCheck = << >>
    /\ emailScheduleMap = EmptyMap
    /\ store \in SUBSET {Acme(31, "Dec", 2025), Acme(1, "Jan", 2026)}
    /\ remoteNames \in SUBSET {Acme(1, "Jan", 2026), Acme(2, "Jan", 2026)}
    /\ dbDuplicateNames = {}
    /\ hubspotDuplicates = EmptyMap
    /\ processedEmailsCache = {}
    /\ emailsToProcess = << >>
    /\ ei = 0
    /\ pending = {}
    /\ stage = EmptyMap
    /\ batchResults = EmptyMap
    /\ cloneCalls = << >>
    /\ epc = "info"
    /\ cloneFaults = 0
    /\ remoteClones = EmptyBag
    /\ lookups = {}
    /\ lookupLog = EmptyMap
    /\ served = << >>
    /\ reqs = << >>

NextClone ==
    \/ GetInfoOk
    \/ GetInfoFail
    \/ GenerateNames
    \/ DbFindOk
    \/ DbFindFail
    \/ CheckBatch
    \/ FilterNames
    \/ CloneStep
    \/ CloneOk
    \/ CloneUnsaved
    \/ CloneFail
    \/ CloneUpdateFail
    \/ BatchDone
    \/ NextBatch

SpecClone == InitClone /\ [][NextClone]_vars

-----------------------------------------------------------------------------
(* SpecFlight: the run of SpecClone with every lookup of                   *)
(* batchCheckEmailsExist (part_000 30-63) as a request of its own, for the *)
(* email ids 1..n.                                                         *)

flightFrame == << besideCloner, chunkVars, remote, fetchVars, listMembers,
                  uploadVars, runVars, served, reqs >>

\* lines 30-54: the lookups of the next group of names are sent
CheckStart ==
    /\ epc = "check"
    /\ ei < Len(emailNamesToCheck)
    /\ lookups' = BatchOf(Len(emailNamesToCheck), ei, CHECK_BATCH_SIZE)
    /\ epc' = "lookup"
    /\ UNCHANGED << flightFrame, lookupLog, remoteClones, emailIds,
                    cloningCount, emailInfoMap, stats, emailNamesToCheck,
                    emailScheduleMap, store, remoteNames, dbDuplicateNames,
                    hubspotDuplicates, processedEmailsCache, emailsToProcess,
                    ei, pending, stage, batchResults, cloneCalls, cloneFaults >>

\* lines 33-50: one lookup in flight is answered, or fails
Lookup(answer) ==
    /\ epc = "lookup"
    /\ \E k \in lookups :
          /\ lookups' = lookups \ {k}
          /\ lookupLog' = Put(lookupLog, k, answer)
    /\ UNCHANGED << flightFrame, remoteClones, emailIds, cloningCount,
                    emailInfoMap, stats, emailNamesToCheck, emailScheduleMap,
                    store, remoteNames, dbDuplicateNames, hubspotDuplicates,
                    processedEmailsCache, emailsToProcess, ei, pending, stage,
                    batchResults, cloneCalls, epc >>

\* lines 34-46
LookupOk ==
    /\ epc = "lookup"
    /\ Lookup("ok")
    /\ UNCHANGED cloneFaults

\* lines 47-50
LookupFail ==
    /\ epc = "lookup"
    /\ cloneFaults < MaxCloneFaults
    /\ cloneFaults' = cloneFaults + 1
    /\ Lookup("failed")

\* lines 53-62: Promise.all has every answer; they are written to existsMap
CheckCollect ==
    /\ epc = "lookup"
    /\ lookups = {}
    /\ LET batch == BatchOf(Len(emailNamesToCheck), ei, CHECK_BATCH_SIZE)
       IN  hubspotDuplicates' =
              CheckResults(emailNamesToCheck, batch,
                           { k \in batch : lookupLog[k] = "failed" },
                           remoteNames, hubspotDuplicates)
    /\ ei' = ei + CHECK_BATCH_SIZE
    /\ epc' = "check"
    /\ UNCHANGED << flightFrame, lookups, lookupLog, remoteClones, emailIds,
                    cloningCount, emailInfoMap, stats, emailNamesToCheck,
                    emailScheduleMap, store, remoteNames, dbDuplicateNames,
                    processedEmailsCache, emailsToProcess, pending, stage,
                    batchResults, cloneCalls, cloneFaults >>

InitFlight ==
    /\ ChunksIdle
    /\ remote = [ l \in ListIds |-> << >> ]
    /\ FetchIdle
    /\ listMembers = [ l \in {SendListId} |-> {} ]
    /\ UploadIdle
    /\ RunIdle
    /\ DeleteIdle
    /\ LegacyIdle
    /\ TimeIdle
    /\ NameIdle
    /\ PropsIdle
    /\ SerialIdle
    /\ \E n \in 1..MaxEmails : emailIds = [ k \in 1..n |-> k ]
    /\ cloningCount \in 1..MaxCloningCount
    /\ emailInfoMap = EmptyMap
    /\ stats = NoStats
    /\ emailNamesToCheck = << >>
    /\ emailScheduleMap = EmptyMap
    /\ store \in SUBSET {Acme(31, "Dec", 2025)}
    /\ remoteNames \in SUBSET {Acme(1, "Jan", 2026)}
    /\ dbDuplicateNames = {}
    /\ hubspotDuplicates = EmptyMap
    /\ processedEmailsCache = {}
    /\ emailsToProcess = << >>
    /\ ei = 0
    /\ pending = {}
    /\ stage = EmptyMap
    /\ batchResults = EmptyMap
    /\ cloneCalls = << >>
    /\ epc = "info"
    /\ cloneFaults = 0
    /\ remoteClones = EmptyBag
    /\ lookups = {}
    /\ lookupLog = EmptyMap
    /\ served = << >>
    /\ reqs = << >>

NextFlight ==
    \/ GetInfoOk
    \/ GetInfoFail
    \/ GenerateNames
    \/ DbFindOk
    \/ DbFindFail
    \/ CheckStart
    \/ LookupOk
    \/ LookupFail
    \/ CheckCollect
    \/ FilterNames
    \/ CloneStep
    \/ CloneOk
    \/ CloneUnsaved
    \/ CloneFail
    \/ CloneUpdateFail
    \/ BatchDone
    \/ NextBatch

SpecFlight == InitFlight /\ [][NextFlight]_vars

-----------------------------------------------------------------------------
(* SpecTwice: POST /clone-emails served twice in sequence with the same    *)
(* emailIds, cloningCount and strategy (src/unnamed/part_000 710-726).     *)

\* what is kept of a run that has ended
RunRecord ==
    [returned |-> epc = "done",
     fetched |-> DOMAIN emailInfoMap,
     calls |-> Range(cloneCalls),
     saved |-> store]

\* lines 710-726: the first request has been answered and the same request
\* arrives again: the cache is cleared and EmailCloner starts anew
Rerun ==
    /\ epc \in {"done", "failed"}
    /\ served = << >>
    /\ served' = Append(served, RunRecord)
    /\ processedEmailsCache' = {}
    /\ emailInfoMap' = EmptyMap
    /\ stats' = NoStats
    /\ emailNamesToCheck' = << >>
    /\ emailScheduleMap' = EmptyMap
    /\ dbDuplicateNames' = {}
    /\ hubspotDuplicates' = EmptyMap
    /\ emailsToProcess' = << >>
    /\ ei' = 0
    /\ pending' = {}
    /\ stage' = EmptyMap
    /\ batchResults' = EmptyMap
    /\ cloneCalls' = << >>
    /\ epc' = "info"
    /\ cloneFaults' = 0
    /\ UNCHANGED << besideCloner, chunkVars, remote, fetchVars, listMembers,
                    uploadVars, runVars, lookups, lookupLog, remoteClones,
                    emailIds, cloningCount, store, remoteNames, reqs >>

InitTwice ==
    /\ ChunksIdle
    /\ remote = [ l \in ListIds |-> << >> ]
    /\ FetchIdle
    /\ listMembers = [ l \in {SendListId} |-> {} ]
    /\ UploadIdle
    /\ RunIdle
    /\ DeleteIdle
    /\ LegacyIdle
    /\ TimeIdle
    /\ NameIdle
    /\ PropsIdle
    /\ SerialIdle
    /\ \E n \in 1..MaxEmails, first \in 1..Len(SourceEmails) :
          emailIds = [ k \in 1..n |->
                         ((first + k - 2) % Len(SourceEmails)) + 1 ]
    /\ cloningCount \in 1..MaxCloningCount
    /\ emailInfoMap = EmptyMap
    /\ stats = NoStats
    /\ emailNamesToCheck = << >>
    /\ emailScheduleMap = EmptyMap
    /\ store = {}
    /\ remoteNames \in SUBSET {Acme(1, "Jan", 2026)}
    /\ dbDuplicateNames = {}
    /\ hubspotDuplicates = EmptyMap
    /\ processedEmailsCache = {}
    /\ emailsToProcess = << >>
    /\ ei = 0
    /\ pending = {}
    /\ stage = EmptyMap
    /\ batchResults = EmptyMap
    /\ cloneCalls = << >>
    /\ epc = "info"
    /\ cloneFaults = 0
    /\ remoteClones = EmptyBag
    /\ lookups = {}
    /\ lookupLog = EmptyMap
    /\ served = << >>
    /\ reqs = << >>

NextTwice ==
    \/ GetInfoOk
    \/ GetInfoFail
    \/ GenerateNames
    \/ DbFindOk
    \/ DbFindFail
    \/ CheckBatch
    \/ FilterNames
    \/ CloneStep
    \/ CloneOk
    \/ CloneUnsaved
    \/ CloneFail
    \/ CloneUpdateFail
    \/ BatchDone
    \/ NextBatch
    \/ Rerun

SpecTwice == InitTwice /\ [][NextTwice]_vars

-----------------------------------------------------------------------------
(* SpecOverlap: two POST /clone-emails requests, strategy "smart", served   *)
(* together by one process (src/unnamed/part_000 13-63, 299-666 and        *)
(* 668-726). A request runs from the answer to a request it awaits, or     *)
(* from a timer of its own, up to its next await, without the other one    *)
(* running in between: a step of the model is one such answer or timer     *)
(* with all that follows it before the next await. The store, HubSpot and  *)
(* processedEmailsCache are shared, the body of a request and the locals   *)
(* of its handler and of EmailCloner are kept per request in reqs, and     *)
(* cloneCalls is the log of the clones made at HubSpot.                    *)

Requests == {1, 2}

MaxOverlapCount == 2   \* largest cloningCount of two requests of one email

\* the body of a request
Body(ids, count) == [emailIds |-> ids, cloningCount |-> count]

\* the bodies of the two requests: the same email and count twice; a request
\* of four names, first next to a request that is turned down and then next
\* to a small one; a name without a date next to a count of 0; and a name
\* whose date cannot be read
OverlapBodies ==
    { << Body(<< 1 >>, c), Body(<< 1 >>, c) >> : c \in 1..MaxOverlapCount }
       \cup { << Body(<< 1, 2 >>, 3), Body(<< >>, 1) >>,
              << Body(<< 1, 2 >>, 3), Body(<< 1 >>, 1) >>,
              << Body(<< 3 >>, 1), Body(<< 1 >>, 0) >>,
              << Body(<< 4 >>, 1), Body(<< 4 >>, 1) >> }

overlapFrame == << besideCloner, chunkVars, remote, fetchVars, listMembers,
                   uploadVars, runVars, lookups, lookupLog, served, emailIds,
                   cloningCount, emailInfoMap, stats, emailNamesToCheck,
                   emailScheduleMap, dbDuplicateNames, hubspotDuplicates,
                   emailsToProcess, ei, pending, stage, batchResults, epc >>

\* a request that has not arrived yet
Waiting(body) ==
    [pc |-> "waiting", emailIds |-> body.emailIds,
     cloningCount |-> body.cloningCount, info |-> EmptyMap, ei |-> 0,
     names |-> << >>, db |-> {}, hub |-> EmptyMap, lookups |-> {},
     found |-> EmptyMap, toProcess |-> << >>, at |-> 0, pending |-> {},
     stage |-> EmptyMap, results |-> EmptyMap, stats |-> NoStats]

\* lines 527-546: the results of the batch are counted; the timer of 300 ms
\* is set when names are left, else EmailCloner returns
Counted(q) ==
    [q EXCEPT !.stats = Collect(q.results, q.at + 1,
                                Min(q.at + BATCH_SIZE, Len(q.toProcess)), @),
              !.pc = IF q.at + BATCH_SIZE < Len(q.toProcess)
                     THEN "delay" ELSE "done"]

\* lines 509-525 and 563-577: the batch after index i begins. A call whose
\* scheduledTime is an Invalid Date ends at line 574, where toISOString
\* throws, before it has sent a request; the other calls send the read of
\* their original
StartBatch(q, i) ==
    LET batch == BatchOf(Len(q.toProcess), i, BATCH_SIZE)
        thrown == { j \in batch : q.toProcess[j].date = InvalidDate }
        begun == [q EXCEPT !.at = i,
                           !.pending = batch \ thrown,
                           !.stage = [ j \in batch \ thrown |-> "get" ],
                           !.results = [ j \in thrown |-> [success |-> FALSE] ]]
    IN  IF batch = {} THEN [q EXCEPT !.pc = "done"]
        ELSE IF batch = thrown THEN Counted(begun)
        ELSE [begun EXCEPT !.pc = "cloning"]

\* lines 496-525: the duplicates are filtered out, the other names are put
\* into the cache and the first batch begins
FilterAndStart(q, cache) ==
    LET f == FilterAll(q.names, cache, q.db, q.hub)
    IN  [cache |-> f.cache,
         req |-> StartBatch([q EXCEPT !.toProcess = f.kept,
                                      !.stats.duplicatesSkipped = @ + f.skipped],
                            0)]

\* lines 54-57: existsMap after the answers to the searches of one group;
\* of two answers for one name the one of the later index stays
ExistsAfter(names, found, map) ==
    [ n \in DOMAIN map |->
        IF \E k \in DOMAIN found : names[k] = n
        THEN found[CHOOSE k \in DOMAIN found :
                      /\ names[k] = n
                      /\ \A j \in DOMAIN found : names[j] = n => j <= k]
        ELSE map[n] ]

\* lines 31-35: the searches of the group after index i are sent
StartGroup(q, i) ==
    [q EXCEPT !.pc = "check", !.at = i,
              !.lookups = BatchOf(Len(q.names), i, CHECK_BATCH_SIZE),
              !.found = EmptyMap]

\* lines 668-726 and 299-326: request r arrives. Without email ids or
\* without a count it is answered 400; else the route clears the cache and
\* EmailCloner asks for the name of the first email id
Arrive ==
    \E r \in Requests :
       /\ reqs[r].pc = "waiting"
       /\ IF reqs[r].emailIds = << >> \/ reqs[r].cloningCount = 0
          THEN /\ reqs' = [reqs EXCEPT ![r].pc = "rejected"]
               /\ UNCHANGED processedEmailsCache
          ELSE /\ reqs' = [reqs EXCEPT ![r].pc = "info"]
               /\ processedEmailsCache' = {}
       /\ UNCHANGED << overlapFrame, store, remoteNames, remoteClones,
                       cloneCalls, cloneFaults >>

\* lines 322-481: the request for the name of the next email id of request
\* r is answered or fails. After the last one the names of every (day,
\* email) pair are derived and the store is asked for them
OverlapInfo(r, ok) ==
    /\ reqs[r].pc = "info"
    /\ \E q \in { reqs[r] } :
       \E info \in { IF ok THEN Put(q.info, q.emailIds[q.ei + 1],
                                    SourceEmails[q.emailIds[q.ei + 1]])
                     ELSE q.info } :
       \E errors \in { IF ok THEN q.stats.errors ELSE q.stats.errors + 1 } :
          IF q.ei + 1 < Len(q.emailIds)
          THEN reqs' = [reqs EXCEPT ![r].info = info, ![r].ei = q.ei + 1,
                                    ![r].stats.errors = errors]
          ELSE \E gen \in { GenDays(q.emailIds, info, "smart",
                                    q.cloningCount) } :
                  reqs' = [reqs EXCEPT
                             ![r].pc = "dbFind",
                             ![r].info = info,
                             ![r].ei = q.ei + 1,
                             ![r].names = gen.names,
                             ![r].stats.errors = errors + gen.errors,
                             ![r].stats.totalAttempted = gen.totalAttempted]
    /\ UNCHANGED << overlapFrame, store, remoteNames, remoteClones,
                    cloneCalls, processedEmailsCache >>

\* lines 326-335: the name of an email id arrives
OverlapInfoOk ==
    \E r \in Requests :
       /\ OverlapInfo(r, TRUE)
       /\ UNCHANGED cloneFaults

\* lines 336-339: the request for a name fails
OverlapInfoFail ==
    \E r \in Requests :
       /\ cloneFaults < MaxCloneFaults
       /\ cloneFaults' = cloneFaults + 1
       /\ OverlapInfo(r, FALSE)

\* lines 485-525 and 17-35: the store answers the query of request r and
\* the searches of the first group of names are sent; without a name
\* batchCheckEmailsExist returns at once and EmailCloner runs to its end
OverlapDbFindOk ==
    \E r \in Requests :
       /\ reqs[r].pc = "dbFind"
       /\ \E q \in { [reqs[r] EXCEPT
                        !.db = store \cap Range(reqs[r].names),
                        !.hub = [ n \in Range(reqs[r].names) |-> FALSE ]] } :
             IF q.names = << >>
             THEN /\ reqs' = [reqs EXCEPT
                                ![r] = FilterAndStart(q, processedEmailsCache).req]
                  /\ processedEmailsCache' =
                        FilterAndStart(q, processedEmailsCache).cache
             ELSE /\ reqs' = [reqs EXCEPT ![r] = StartGroup(q, 0)]
                  /\ UNCHANGED processedEmailsCache
       /\ UNCHANGED << overlapFrame, store, remoteNames, remoteClones,
                       cloneCalls, cloneFaults >>

\* lines 485 and 553-559: the query fails and the run of request r gives up
OverlapDbFindFail ==
    \E r \in Requests :
       /\ reqs[r].pc = "dbFind"
       /\ cloneFaults < MaxCloneFaults
       /\ cloneFaults' = cloneFaults + 1
       /\ reqs' = [reqs EXCEPT ![r].pc = "failed"]
       /\ UNCHANGED << overlapFrame, store, remoteNames, remoteClones,
                       cloneCalls, processedEmailsCache >>

\* lines 35-61 and 496-525: one search of the group of request r is answered
\* (ok) or fails. With the last answer of the group existsMap is written;
\* then the timer of 200 ms is set when names are left, else the names are
\* filtered and the first batch of clones begins
OverlapLookup(r, ok) ==
    /\ reqs[r].pc = "check"
    /\ \E k \in reqs[r].lookups :
       \E found \in { Put(reqs[r].found, k,
                          ok /\ reqs[r].names[k] \in remoteNames) } :
          IF reqs[r].lookups # {k}
          THEN /\ reqs' = [reqs EXCEPT ![r].lookups = @ \ {k},
                                       ![r].found = found]
               /\ UNCHANGED processedEmailsCache
          ELSE \E q \in { [reqs[r] EXCEPT
                             !.lookups = {},
                             !.found = EmptyMap,
                             !.hub = ExistsAfter(reqs[r].names, found, @)] } :
                  IF q.at + CHECK_BATCH_SIZE < Len(q.names)
                  THEN /\ reqs' = [reqs EXCEPT
                                     ![r] = [q EXCEPT !.pc = "checkDelay"]]
                       /\ UNCHANGED processedEmailsCache
                  ELSE /\ reqs' = [reqs EXCEPT
                                     ![r] = FilterAndStart(q, processedEmailsCache).req]
                       /\ processedEmailsCache' =
                             FilterAndStart(q, processedEmailsCache).cache
    /\ UNCHANGED << overlapFrame, store, remoteNames, remoteClones, cloneCalls >>

\* lines 35-47: a search is answered
OverlapLookupOk ==
    \E r \in Requests :
       /\ OverlapLookup(r, TRUE)
       /\ UNCHANGED cloneFaults

\* lines 48-51: a search fails and its name counts as not existing
OverlapLookupFail ==
    \E r \in Requests :
       /\ cloneFaults < MaxCloneFaults
       /\ cloneFaults' = cloneFaults + 1
       /\ OverlapLookup(r, FALSE)

\* lines 31-35 and 60-62: after the timer the searches of the next group of
\* request r are sent
OverlapNextGroup ==
    \E r \in Requests :
       /\ reqs[r].pc = "checkDelay"
       /\ reqs' = [reqs EXCEPT
                     ![r] = StartGroup(reqs[r],
                                       reqs[r].at + CHECK_BATCH_SIZE)]
       /\ UNCHANGED << overlapFrame, store, remoteNames, remoteClones,
                       cloneCalls, cloneFaults, processedEmailsCache >>

\* lines 594-610: the log of the clones made at HubSpot after the answer to
\* the request of stage stg
CallsAfter(calls, emailName, stg, ok) ==
    IF stg = "clone" /\ ok THEN Append(calls, emailName) ELSE calls

\* lines 563-666 and 527-546: the request of stage stg that a call of the
\* batch of request r awaits is answered (ok) or fails; the call sends its
\* next request or ends, and with the last call of the batch the results
\* are counted
OverlapCall(r, stg, ok) ==
    /\ reqs[r].pc = "cloning"
    /\ \E j \in reqs[r].pending :
          /\ reqs[r].stage[j] = stg
          /\ remoteNames' =
                RemoteAfter(remoteNames, reqs[r].toProcess[j], stg, ok)
          /\ remoteClones' =
                ClonesAfter(remoteClones, reqs[r].toProcess[j], stg, ok)
          /\ cloneCalls' = CallsAfter(cloneCalls, reqs[r].toProcess[j], stg, ok)
          /\ IF NextStage(stg, ok) = "ended"
             THEN /\ store' = StoreAfter(store, reqs[r].toProcess[j],
                                         Outcome(stg, ok))
                  /\ \E q \in { [reqs[r] EXCEPT
                                   !.pending = @ \ {j},
                                   !.stage =
                                       [ k \in reqs[r].pending \ {j} |-> @[k] ],
                                   !.results =
                                       Put(@, j,
                                           CloneReturn(reqs[r].toProcess[j],
                                                       Outcome(stg, ok)))] } :
                        reqs' = [reqs EXCEPT
                                   ![r] = IF q.pending = {} THEN Counted(q)
                                          ELSE q]
             ELSE /\ store' = store
                  /\ reqs' = [reqs EXCEPT
                                ![r].stage[j] = NextStage(stg, ok)]
    /\ UNCHANGED << overlapFrame, processedEmailsCache >>

\* lines 577-634: a call of request r reads the original, makes the clone or
\* renames it, and sends its next request
OverlapStep ==
    \E r \in Requests, stg \in {"get", "clone", "put"} :
       /\ OverlapCall(r, stg, TRUE)
       /\ UNCHANGED cloneFaults

\* lines 636-657: the record of a renamed clone of request r is saved
OverlapCloneOk ==
    \E r \in Requests :
       /\ OverlapCall(r, "save", TRUE)
       /\ UNCHANGED cloneFaults

\* lines 577-665: a request of a call of request r fails
OverlapCloneFault ==
    \E r \in Requests, stg \in {"get", "clone", "put", "save"} :
       /\ cloneFaults < MaxCloneFaults
       /\ cloneFaults' = cloneFaults + 1
       /\ OverlapCall(r, stg, FALSE)

\* lines 509-525 and 543-545: after the timer of 300 ms the next batch of
\* request r begins
OverlapNextBatch ==
    \E r \in Requests :
       /\ reqs[r].pc = "delay"
       /\ reqs' = [reqs EXCEPT
                     ![r] = StartBatch(reqs[r], reqs[r].at + BATCH_SIZE)]
       /\ UNCHANGED << overlapFrame, store, remoteNames, remoteClones,
                       cloneCalls, cloneFaults, processedEmailsCache >>

InitOverlap ==
    /\ ChunksIdle
    /\ remote = [ l \in ListIds |-> << >> ]
    /\ FetchIdle
    /\ listMembers = [ l \in {SendListId} |-> {} ]
    /\ UploadIdle
    /\ RunIdle
    /\ DeleteIdle
    /\ LegacyIdle
    /\ TimeIdle
    /\ NameIdle
    /\ PropsIdle
    /\ SerialIdle
    /\ emailIds = << >>
    /\ cloningCount = 0
    /\ emailInfoMap = EmptyMap
    /\ stats = NoStats
    /\ emailNamesToCheck = << >>
    /\ emailScheduleMap = EmptyMap
    /\ store = {}
    /\ remoteNames = {}
    /\ dbDuplicateNames = {}
    /\ hubspotDuplicates = EmptyMap
    /\ processedEmailsCache = {}
    /\ emailsToProcess = << >>
    /\ ei = 0
    /\ pending = {}
    /\ stage = EmptyMap
    /\ batchResults = EmptyMap
    /\ cloneCalls = << >>
    /\ epc = "idle"
    /\ cloneFaults = 0
    /\ remoteClones = EmptyBag
    /\ lookups = {}
    /\ lookupLog = EmptyMap
    /\ served = << >>
    /\ \E bodies \in OverlapBodies :
          reqs = [ r \in Requests |-> Waiting(bodies[r]) ]

NextOverlap ==
    \/ Arrive
    \/ OverlapInfoOk
    \/ OverlapInfoFail
    \/ OverlapDbFindOk
    \/ OverlapDbFindFail
    \/ OverlapLookupOk
    \/ OverlapLookupFail
    \/ OverlapNextGroup
    \/ OverlapStep
    \/ OverlapCloneOk
    \/ OverlapCloneFault
    \/ OverlapNextBatch

SpecOverlap == InitOverlap /\ [][NextOverlap]_vars

-----------------------------------------------------------------------------
(* SpecSerial: two POST /clone-emails requests served together by the      *)
(* route of src/routes/cloner.js (363-411), whose EmailCloner (272-361)    *)
(* clones one email after the other. A request runs from the answer to the *)
(* request it awaits, or from its timer, up to its next await, without the *)
(* other one running in between. The store, HubSpot and                    *)
(* processedEmailsCache are shared; the body of a request and the locals   *)
(* of its run are kept per request in reqs:                                *)
(*   frame     the parameter strategy and the locals of the two loops      *)
(*   lastCall  arguments and result of the latest call, or NoName; its     *)
(*             result is NoName while the call is in flight                *)
(*   stage     the request the call in flight awaits                       *)

MaxSerialEmails == 14   \* longest emailIds of SpecSerial

\* the name of the email with the given id at the remote API
SerialSource(id) ==
    IF id \in undated THEN [before |-> "Welcome", date |-> NoDate, after |-> ""]
    ELSE Acme(id, "Jan", 2025)

\* cloner.js 291-320: hour and minute handed to cloneAndScheduleEmail
SerialSlot(f) ==
    CASE f.strategy = "morning" -> [hour |-> 11, minute |-> f.minuteCounter]
      [] f.strategy = "afternoon" -> [hour |-> 16, minute |-> f.minuteCounter]
      [] f.strategy = "custom" -> [hour |-> 11, minute |-> f.minuteCounter]
      [] OTHER ->
            IF f.morningSlotsUsed < MAX_MORNING_SLOTS
            THEN [hour |-> 11, minute |-> f.minuteCounter]
            ELSE [hour |-> 16,
                  minute |-> f.minuteCounter - (MAX_MORNING_SLOTS * 5)]

\* cloner.js 291-320: the counters after the slot was taken
SerialCount(f) ==
    IF f.strategy \in {"morning", "afternoon", "custom"}
    THEN [f EXCEPT !.minuteCounter = @ + 5]
    ELSE IF f.morningSlotsUsed < MAX_MORNING_SLOTS
         THEN [f EXCEPT !.minuteCounter = @ + 5, !.morningSlotsUsed = @ + 1]
         ELSE f

\* cloner.js 282-289 and 345-346: the loops move to the next pair
SerialAdvance(f, n) ==
    IF f.i + 1 < n THEN [f EXCEPT !.i = @ + 1]
    ELSE [f EXCEPT !.day = @ + 1, !.i = 0, !.minuteCounter = 0,
                   !.morningSlotsUsed = 0]

\* A source name without a date reported as an error.
SkippedUndatedAsError == [success |-> FALSE, skipped |-> FALSE]

\* cloner.js 105-111: the result for a source name without a date
SkippedUndated == [success |-> FALSE, skipped |-> TRUE]

\* cloner.js 51-238: where cloneAndScheduleEmail goes after the answer to the
\* request of stage stg: the request it awaits next, or the result it
\* returns. When clonedDate is an Invalid Date, toISOString throws at line
\* 225 after the clone was made and renamed, and the call returns a failure
SerialAnswer(stg, ok, src, emailName, cache, st, names) ==
    LET Goes(next) == [stage |-> next, result |-> NoName]
        Ends(result) == [stage |-> "ended", result |-> result]
        skippedResult == [success |-> FALSE, skipped |-> TRUE]
        failed == [success |-> FALSE, skipped |-> FALSE]
    IN  CASE stg = "get" ->
                IF ~ok THEN Ends(failed)
                ELSE IF src.date = NoDate THEN Ends(SkippedUndated)
                ELSE IF emailName \in cache THEN Ends(skippedResult)
                ELSE Goes("find")
          [] stg = "find" ->
                IF ok /\ emailName \in st THEN Ends(skippedResult)
                ELSE Goes("search")
          [] stg = "search" ->
                IF ok /\ emailName \in names THEN Ends(skippedResult)
                ELSE Goes("clone")
          [] stg = "clone" -> IF ok THEN Goes("put") ELSE Ends(failed)
          [] stg = "put" -> IF ok THEN Goes("save") ELSE Ends(failed)
          [] OTHER ->
                IF emailName.date = InvalidDate THEN Ends(failed)
                ELSE Ends([success |-> TRUE, skipped |-> FALSE])

\* cloner.js 332-343: the result of a call is counted
SerialStats(st, result, emailName) ==
    IF result.success
    THEN [st EXCEPT !.successfullyCloned = @ + 1,
                    !.clonedEmails = Append(@, emailName)]
    ELSE IF result.skipped
    THEN [st EXCEPT !.duplicatesSkipped = @ + 1]
    ELSE [st EXCEPT !.errors = @ + 1]

\* the body of a request to the route of cloner.js
SerialBody(ids, count, strategy) ==
    [emailIds |-> ids, cloningCount |-> count, strategy |-> strategy]

\* a request that has not arrived yet
SerialWaiting(body) ==
    [pc |-> "waiting", emailIds |-> body.emailIds,
     cloningCount |-> body.cloningCount,
     frame |-> [strategy |-> body.strategy, day |-> 1, i |-> 0,
                minuteCounter |-> 0, morningSlotsUsed |-> 0],
     lastCall |-> NoName, stage |-> "none", stats |-> NoStats]

\* cloner.js 286-330: a pass of the inner loop takes its slot, counts the
\* pair in totalAttempted and calls cloneAndScheduleEmail, which sends its
\* first request
SerialBegin(q, f) ==
    [q EXCEPT !.lastCall = [originalEmailId |-> q.emailIds[f.i + 1],
                            dayOffset |-> f.day, i |-> f.i,
                            hour |-> SerialSlot(f).hour,
                            minute |-> SerialSlot(f).minute,
                            result |-> NoName],
              !.frame = SerialCount(f),
              !.stats.totalAttempted = @ + 1,
              !.stage = "get",
              !.pc = "call"]

serialFrame == << besideSerial, chunkVars, remote, fetchVars, listMembers,
                  uploadVars, runVars, undated, emailIds, cloningCount,
                  emailInfoMap, stats, emailNamesToCheck, emailScheduleMap,
                  dbDuplicateNames, hubspotDuplicates, emailsToProcess, ei,
                  pending, stage, batchResults, cloneCalls, lookups, lookupLog,
                  served, epc >>

\* cloner.js 363-384, 272-330 and 347-361: request r arrives. Without email
\* ids or without a count it is answered 400; else the route clears the
\* cache and EmailCloner enters its first pass, or with a count below 1 it
\* makes no pass and the run ends with the stats at zero
SerialArrive ==
    \E r \in Requests :
       /\ reqs[r].pc = "waiting"
       /\ IF reqs[r].emailIds = << >> \/ reqs[r].cloningCount = 0
          THEN /\ reqs' = [reqs EXCEPT ![r].pc = "rejected"]
               /\ UNCHANGED processedEmailsCache
          ELSE /\ reqs' = [reqs EXCEPT
                             ![r] = IF reqs[r].frame.day > reqs[r].cloningCount
                                    THEN [@ EXCEPT !.pc = "done"]
                                    ELSE SerialBegin(@, reqs[r].frame)]
               /\ processedEmailsCache' = {}
       /\ UNCHANGED << serialFrame, remoteClones, remoteNames, store,
                       cloneFaults >>

\* the destination name of the call in flight of a request
SerialName(q) ==
    DestinationName(SerialSource(q.lastCall.originalEmailId),
                    q.lastCall.dayOffset,
                    [hour |-> q.lastCall.hour, minute |-> q.lastCall.minute])

\* cloner.js 51-238 and 332-345: the request the call of request r awaits is
\* answered (ok) or fails; the call sends its next request, or it returns,
\* its result is counted and the timer of line 345 is set
SerialRequest(r, stg, ok) ==
    /\ reqs[r].pc = "call"
    /\ reqs[r].stage = stg
    /\ \E emailName \in { SerialName(reqs[r]) } :
       \E answer \in { SerialAnswer(stg, ok,
                                    SerialSource(
                                        reqs[r].lastCall.originalEmailId),
                                    emailName, processedEmailsCache, store,
                                    remoteNames) } :
           /\ processedEmailsCache' =
                 IF stg = "search" /\ answer.stage = "clone"
                 THEN processedEmailsCache \cup {emailName}
                 ELSE processedEmailsCache
           /\ remoteClones' = ClonesAfter(remoteClones, emailName, stg, ok)
           /\ remoteNames' = RemoteAfter(remoteNames, emailName, stg, ok)
           /\ store' = IF stg = "save" /\ ok THEN store \cup {emailName}
                       ELSE store
           /\ reqs' =
                 IF answer.stage = "ended"
                 THEN [reqs EXCEPT
                         ![r].lastCall.result = answer.result,
                         ![r].stats = SerialStats(@, answer.result, emailName),
                         ![r].stage = "none",
                         ![r].pc = "pause"]
                 ELSE [reqs EXCEPT ![r].stage = answer.stage]
    /\ UNCHANGED serialFrame

\* the request of a call is answered
SerialRequestOk ==
    \E r \in Requests,
       stg \in {"get", "find", "search", "clone", "put", "save"} :
          /\ SerialRequest(r, stg, TRUE)
          /\ UNCHANGED cloneFaults

\* the request of a call fails
SerialRequestFault ==
    \E r \in Requests,
       stg \in {"get", "find", "search", "clone", "put", "save"} :
          /\ cloneFaults < MaxCloneFaults
          /\ cloneFaults' = cloneFaults + 1
          /\ SerialRequest(r, stg, FALSE)

\* cloner.js 282-289 and 345-361: the timer after a call of request r
\* fires; the loops move to the next pair and call cloneAndScheduleEmail for
\* it, or the run ends
SerialPause ==
    \E r \in Requests :
       /\ reqs[r].pc = "pause"
       /\ \E next \in { SerialAdvance(reqs[r].frame, Len(reqs[r].emailIds)) } :
             reqs' = [reqs EXCEPT
                        ![r] = IF next.day > reqs[r].cloningCount
                               THEN [@ EXCEPT !.frame = next, !.pc = "done"]
                               ELSE SerialBegin(@, next)]
       /\ UNCHANGED << serialFrame, processedEmailsCache, remoteClones,
                       remoteNames, store, cloneFaults >>

SerialSizes == {1, 2, MaxSerialEmails}

\* the bodies of the two requests: a run of every size and strategy next to
\* a request that is turned down; two runs side by side; an email whose
\* name carries a date that cannot be read next to a request without a
\* count; and a run next to a request with a negative count
SerialBodies ==
    { << SerialBody([ k \in 1..n |-> k ], count, strategy),
         SerialBody(<< >>, 1, "smart") >> :
         n \in SerialSizes, count \in {1, 2}, strategy \in Strategies }
       \cup { << SerialBody(<< 1, 2 >>, 2, "smart"),
                 SerialBody(<< 1 >>, 1, "smart") >>,
              << SerialBody(<< 1 >>, 1, "smart"),
                 SerialBody(<< 1 >>, 1, "smart") >>,
              << SerialBody(<< 32 >>, 1, "smart"),
                 SerialBody(<< 1 >>, 0, "smart") >>,
              << SerialBody(<< 1 >>, 1, "smart"),
                 SerialBody(<< 1, 2 >>, -1, "smart") >> }

InitSerial ==
    /\ ChunksIdle
    /\ remote = [ l \in ListIds |-> << >> ]
    /\ FetchIdle
    /\ listMembers = [ l \in {SendListId} |-> {} ]
    /\ UploadIdle
    /\ RunIdle
    /\ DeleteIdle
    /\ LegacyIdle
    /\ TimeIdle
    /\ NameIdle
    /\ PropsIdle
    /\ undated \in {{}, {2}}
    /\ emailIds = << >>
    /\ cloningCount = 0
    /\ emailInfoMap = EmptyMap
    /\ stats = NoStats
    /\ emailNamesToCheck = << >>
    /\ emailScheduleMap = EmptyMap
    /\ store \in SUBSET {Acme(2, "Jan", 2025)}
    /\ remoteNames \in SUBSET {Acme(3, "Jan", 2025)}
    /\ dbDuplicateNames = {}
    /\ hubspotDuplicates = EmptyMap
    /\ processedEmailsCache = {}
    /\ emailsToProcess = << >>
    /\ ei = 0
    /\ pending = {}
    /\ stage = EmptyMap
    /\ batchResults = EmptyMap
    /\ cloneCalls = << >>
    /\ epc = "idle"
    /\ cloneFaults = 0
    /\ remoteClones = EmptyBag
    /\ lookups = {}
    /\ lookupLog = EmptyMap
    /\ served = << >>
    /\ \E bodies \in SerialBodies :
          /\ Len(bodies[1].emailIds) > 2 => bodies[1].cloningCount = 1
          /\ reqs = [ r \in Requests |-> SerialWaiting(bodies[r]) ]

NextSerial ==
    \/ SerialArrive
    \/ SerialRequestOk
    \/ SerialRequestFault
    \/ SerialPause

SpecSerial == InitSerial /\ [][NextSerial]_vars

-----------------------------------------------------------------------------
(* SpecDelete: requests DELETE /cloned-emails/:id, part_000 779-839 (the   *)
(* same text as cloner.js 441-501), served one after the other             *)

MaxRecords == 2         \* record ids 1..MaxRecords; MaxRecords + 1 is unknown
MaxDeletes == 2         \* requests served in one behaviour

\* the remote email of record id r, where it has one
RemoteIdOf(r) == 10 + r

deleteFrame == << besideDelete, chunkVars, remote, fetchVars, listMembers,
                  uploadVars, runVars >>

Served == Cardinality({ k \in 1..Len(delLog) : delLog[k].op = "request" })

\* The store left alone once the remote deletion has failed.
AfterRemoteDeleteGivingUp(ok) == IF ok THEN "store" ELSE "failed"

\* lines 793-817: whatever the remote deletion did, the record is deleted next
AfterRemoteDelete(ok) == "store"

\* lines 779-781: a request for record id arrives
DeleteRequest ==
    /\ delReq.pc \in {"idle", "answered"}
    /\ Served < MaxDeletes
    /\ \E id \in 1..(MaxRecords + 1) :
          /\ delReq' = [pc |-> "find", id |-> id, hubspotDeleted |-> FALSE,
                        hubspotError |-> FALSE]
          /\ delLog' = Append(delLog, [op |-> "request", id |-> id])
    /\ UNCHANGED << deleteFrame, auditRecords, hubspotEmails >>

\* lines 781-787: findById answers with the record, or with null
FindOk ==
    /\ delReq.pc = "find"
    /\ delReq' =
          IF delReq.id \notin DOMAIN auditRecords
          THEN [delReq EXCEPT !.pc = "answered"] @@ [status |-> 404]
          ELSE IF auditRecords[delReq.id] # 0
          THEN [delReq EXCEPT !.pc = "remote"]
          ELSE [delReq EXCEPT !.pc = "store"]
    /\ UNCHANGED << deleteFrame, auditRecords, hubspotEmails, delLog >>

\* lines 781 and 831-838: findById throws
FindFail ==
    /\ delReq.pc = "find"
    /\ delReq' = [delReq EXCEPT !.pc = "answered"] @@ [status |-> 500]
    /\ UNCHANGED << deleteFrame, auditRecords, hubspotEmails, delLog >>

\* lines 796-807: the remote deletion is accepted
RemoteDeleteOk ==
    /\ delReq.pc = "remote"
    /\ hubspotEmails' = hubspotEmails \ {auditRecords[delReq.id]}
    /\ delReq' = [delReq EXCEPT !.pc = AfterRemoteDelete(TRUE),
                                !.hubspotDeleted = TRUE]
    /\ delLog' = Append(delLog, [op |-> "remoteDelete", id |-> delReq.id,
                                 ok |-> TRUE])
    /\ UNCHANGED << deleteFrame, auditRecords >>

\* lines 796-803 and 808-812: the remote deletion fails
RemoteDeleteFail ==
    /\ delReq.pc = "remote"
    /\ delReq' =
          IF AfterRemoteDelete(FALSE) = "store"
          THEN [delReq EXCEPT !.pc = "store", !.hubspotError = TRUE]
          ELSE [delReq EXCEPT !.pc = "answered", !.hubspotError = TRUE]
                  @@ [status |-> 500]
    /\ delLog' = Append(delLog, [op |-> "remoteDelete", id |-> delReq.id,
                                 ok |-> FALSE])
    /\ UNCHANGED << deleteFrame, auditRecords, hubspotEmails >>

\* lines 816-830: the record is deleted and the request answered
StoreDeleteOk ==
    /\ delReq.pc = "store"
    /\ auditRecords' =
          [ r \in DOMAIN auditRecords \ {delReq.id} |-> auditRecords[r] ]
    /\ delReq' = [delReq EXCEPT !.pc = "answered"] @@ [status |-> 200]
    /\ delLog' = Append(delLog, [op |-> "storeDelete", id |-> delReq.id,
                                 ok |-> TRUE])
    /\ UNCHANGED << deleteFrame, hubspotEmails >>

\* lines 816 and 831-838: findByIdAndDelete throws
StoreDeleteFail ==
    /\ delReq.pc = "store"
    /\ delReq' = [delReq EXCEPT !.pc = "answered"] @@ [status |-> 500]
    /\ delLog' = Append(delLog, [op |-> "storeDelete", id |-> delReq.id,
                                 ok |-> FALSE])
    /\ UNCHANGED << deleteFrame, auditRecords, hubspotEmails >>

InitDelete ==
    /\ ChunksIdle
    /\ remote = [ l \in ListIds |-> << >> ]
    /\ FetchIdle
    /\ listMembers = [ l \in {SendListId} |-> {} ]
    /\ UploadIdle
    /\ RunIdle
    /\ LegacyIdle
    /\ TimeIdle
    /\ NameIdle
    /\ ClonerIdle
    /\ PropsIdle
    /\ SerialIdle
    /\ \E ids \in SUBSET (1..MaxRecords) :
          auditRecords \in [ ids -> {0} \cup { RemoteIdOf(r) : r \in ids } ]
    /\ \A r \in DOMAIN auditRecords : auditRecords[r] \in {0, RemoteIdOf(r)}
    /\ hubspotEmails \in SUBSET { RemoteIdOf(r) : r \in 1..MaxRecords }
    /\ delReq = NoRequest
    /\ delLog = << >>

NextDelete ==
    \/ DeleteRequest
    \/ FindOk
    \/ FindFail
    \/ RemoteDeleteOk
    \/ RemoteDeleteFail
    \/ StoreDeleteOk
    \/ StoreDeleteFail

SpecDelete == InitDelete /\ [][NextDelete]_vars

-----------------------------------------------------------------------------
(* SpecProps: updateContactProperties(contactIds, ...), hubspotRoute.js    *)
(* 213-246, on the vids 1..n                                               *)

MaxPropChunks == 4      \* SpecProps updates up to this many chunks

PROPERTY_BATCH_SIZE == 100

PropSizes ==
    { (k * PROPERTY_BATCH_SIZE) + r :
        k \in 0..(MaxPropChunks - 1), r \in {0, 1, PROPERTY_BATCH_SIZE} }

\* The loop left at the first request that fails.
PropsAdvanceStopping(i, n, ok) ==
    IF i + 1 < n /\ ok THEN "loop" ELSE "returned"

\* lines 221 and 232-245: after the request of the chunk at index i of n,
\* accepted or not, the loop takes the next chunk or the function returns
PropsAdvance(i, n, ok) == IF i + 1 < n THEN "loop" ELSE "returned"

\* lines 214-221: the chunks are cut and the loop is entered
PropsCall ==
    /\ ppc = "idle"
    /\ propIndex' = 0
    /\ propRequests' = << >>
    /\ ppc' = IF chunkArray(contactIds, PROPERTY_BATCH_SIZE) = << >>
              THEN "returned" ELSE "loop"
    /\ UNCHANGED << besideProps, chunkVars, remote, fetchVars, listMembers,
                    uploadVars, runVars, contactIds >>

\* lines 222-245: the batch update of one chunk, accepted or failing
PropsRequest(ok) ==
    /\ ppc = "loop"
    /\ LET batches == chunkArray(contactIds, PROPERTY_BATCH_SIZE)
           chunk == batches[propIndex + 1]
       IN  /\ propRequests' = Append(propRequests, [chunk |-> chunk, ok |-> ok])
           /\ propertiesUpdated' =
                 IF ok THEN propertiesUpdated \cup Range(chunk)
                 ELSE propertiesUpdated
           /\ ppc' = PropsAdvance(propIndex, Len(batches), ok)
    /\ propIndex' = propIndex + 1
    /\ UNCHANGED << besideProps, chunkVars, remote, fetchVars, listMembers,
                    uploadVars, listConfigs, index, usedContacts, results, rpc,
                    primaryContacts, secondaryContacts, primaryBeforeFilter,
                    secondaryBeforeFilter, selectedContacts,
                    fulfillmentPercentage, newList, createdLists, selections,
                    faults, contactIds >>

\* lines 233-238
PropsChunkOk ==
    /\ ppc = "loop"
    /\ PropsRequest(TRUE)

\* lines 239-242
PropsChunkFail ==
    /\ ppc = "loop"
    /\ PropsRequest(FALSE)

InitProps ==
    /\ ChunksIdle
    /\ remote = [ l \in ListIds |-> << >> ]
    /\ FetchIdle
    /\ listMembers = [ l \in {SendListId} |-> {} ]
    /\ UploadIdle
    /\ RunIdle
    /\ DeleteIdle
    /\ LegacyIdle
    /\ TimeIdle
    /\ NameIdle
    /\ ClonerIdle
    /\ SerialIdle
    /\ \E n \in PropSizes : contactIds = [ i \in 1..n |-> i ]
    /\ propIndex = 0
    /\ propRequests = << >>
    /\ ppc = "idle"

NextProps ==
    \/ PropsCall
    \/ PropsChunkOk
    \/ PropsChunkFail

SpecProps == InitProps /\ [][NextProps]_vars

-----------------------------------------------------------------------------
(* Properties of progressiveChunks (SpecChunks) *)

RECURSIVE Repeat(_, _)
Repeat(x, n) == IF n <= 0 THEN << >> ELSE << x >> \o Repeat(x, n - 1)

\* The chunk sizes of the decreasing tier schedule for n elements.
ScheduleSizes(n) ==
    Repeat(300, n \div 300)
        \o Repeat(100, (n % 300) \div 100)
        \o Repeat(50, ((n % 300) % 100) \div 50)
        \o Repeat(1, ((n % 300) % 100) % 50)

\* C7: progressiveChunks follows the tier schedule: full chunks of 300, then
\* of 100, then of 50, then of 1, so every chunk size is a schedule size and
\* 450 elements give the sizes [300, 100, 50].
C7_TierSchedule ==
    cpc = "done" =>
        /\ \A i \in 1..Len(chunked) : Len(chunked[i]) \in Range(DefaultSizes)
        /\ Sizes(chunked) = ScheduleSizes(Len(arr))

\* C8: progressiveChunks returns a partition of its input: the chunks are
\* non-empty, none is larger than 300, their concatenation in order is the
\* input, and 1000 elements give the sizes [300, 300, 300, 100].
C8_Partition ==
    cpc = "done" =>
        /\ \A i \in 1..Len(chunked) :
              Len(chunked[i]) >= 1 /\ Len(chunked[i]) <= 300
        /\ Flatten(chunked) = arr
        /\ (Len(arr) = 1000 => Sizes(chunked) = <<300, 300, 300, 100>>)

C8_Witness ==
    /\ cpc = "done"
    /\ Len(arr) = 1000
    /\ Sizes(chunked) = <<300, 300, 300, 100>>

-----------------------------------------------------------------------------
(* Properties of getContactsFromList (SpecFetch) *)

\* The number of the page on which the API reports has-more = false when
\* it is asked for pages of RETRIEVAL_BATCH_SIZE.
PagesUntilLast(members) ==
    Max(1, (Len(members) + RETRIEVAL_BATCH_SIZE - 1) \div RETRIEVAL_BATCH_SIZE)

\* C2: the call returns at most maxCount identifiers, and exactly maxCount
\* when the remote list holds at least maxCount members and the call did not
\* end on the retry limit, also when a vid is handed out more than once.
C2_CapRespected ==
    fpc = "returned" =>
        /\ Len(fetchResult) <= maxCount
        /\ (/\ Cardinality(Range(remote[fListId])) >= maxCount
            /\ consecutiveErrors < MAX_RETRIES)
               => Len(fetchResult) = maxCount

\* C3: with has-more = false on page k the call consumes at most k answered
\* pages and at most k * MAX_RETRIES requests, for every maxCount; while it
\* is still looping a page and a retry are left, so it cannot loop for ever.
C3_PaginationTerminates ==
    LET k == PagesUntilLast(remote[fListId])
    IN  fpc # "idle" =>
            /\ okPages <= k
            /\ totalAttempts <= k * MAX_RETRIES
            /\ fpc = "loop" =>
                  /\ okPages < k
                  /\ consecutiveErrors < MAX_RETRIES
                  /\ totalAttempts < k * MAX_RETRIES

C3_Witness ==
    /\ fpc = "returned"
    /\ maxCount = Infinity
    /\ okPages = PagesUntilLast(remote[fListId])
    /\ okPages >= 2
    /\ totalAttempts > okPages

\* C4: a failed page request that brings the counter to MAX_RETRIES ends the
\* call: with identifiers collected it returns them without raising, with
\* none it raises an error carrying the message of that last failure; below
\* the limit the call neither returns nor raises and asks for the same page.
C4_RetryLimit ==
    [][ consecutiveErrors' = consecutiveErrors + 1 =>
          IF consecutiveErrors' >= MAX_RETRIES
          THEN IF Len(allContacts) > 0
               THEN fpc' = "returned" /\ fetchResult' = Unique(allContacts)
               ELSE /\ fpc' = "thrown"
                    /\ fetchError'.cause = requestLog'[Len(requestLog')].message
          ELSE /\ fpc' = "loop"
               /\ offset' = offset
               /\ allContacts' = allContacts ]_vars

C4_Witness ==
    /\ fpc = "returned"
    /\ consecutiveErrors = MAX_RETRIES
    /\ Len(fetchResult) > 0

-----------------------------------------------------------------------------
(* Properties of addContactsToList (SpecUpload) *)

\* The chunks with the given indexes (from 0), in index order.
ChunksAt(indexes) ==
    LET kept == { i \in 1..Len(chunks) : (i - 1) \in indexes }
        nth(k) == CHOOSE i \in kept : Cardinality({ j \in kept : j < i }) = k - 1
    IN  [ k \in 1..Cardinality(kept) |-> chunks[nth(k)] ]

\* C5: the call never raises and never aborts the batch: when it has
\* returned, every chunk was attempted, the chunks recorded as failed are
\* exactly those the API never accepted, the accepted ones are in the list;
\* with 5 chunks of which only chunk index 2 fails, one chunk is recorded as
\* failed and the other four are uploaded.
C5_PartialUploadNeverThrows ==
    /\ upc # "thrown"
    /\ upc = "returned" =>
          /\ attempted = 0..(Len(chunks) - 1)
          /\ failedChunks = ChunksAt(attempted \ accepted)
          /\ \A i \in accepted : Range(chunks[i + 1]) \subseteq listMembers[uListId]
          /\ (Len(chunks) = 5 /\ attempted \ accepted = {2}) =>
                /\ failedChunks = << chunks[3] >>
                /\ accepted = {0, 1, 3, 4}
                /\ listMembers[uListId] = Range(uContacts) \ Range(chunks[3])

C5_Witness ==
    /\ upc = "returned"
    /\ Len(chunks) = 5
    /\ accepted = {0, 1, 3, 4}
    /\ Len(failedChunks) = 1
    /\ retries = 0

\* C6: the call hands its caller the value {successCount, failedChunks}:
\* successCount is the total size of the accepted chunks, failedChunks the
\* chunks that failed all attempts, both sizes add up to the input; for an
\* empty input no request is made and the value holds zero counts.
C6_ReportsOutcome ==
    upc = "returned" =>
        /\ uploadResult = UploadReport(SumLen(ChunksAt(accepted)),
                                       ChunksAt(attempted \ accepted))
        /\ uploadResult.successCount + SumLen(uploadResult.failedChunks)
              = Len(uContacts)
        /\ Len(uContacts) = 0 =>
              attempted = {} /\ uploadResult = UploadReport(0, << >>)

-----------------------------------------------------------------------------
(* Properties of the selection of processSingleCampaign (SpecAlloc) *)

\* round(100 * selected / count), halves rounded up, in exact arithmetic
RoundedPercentage(selected, count) ==
    (200 * selected + count) \div (2 * count)

\* C9: fulfillmentPercentage is round(100 * selected / count), and 0 when
\* count <= 0; count 100 with 60 unused primary and 50 unused secondary
\* identifiers selects 100 at 100 percent, 40 unused primary identifiers and
\* no secondary list select 40 at 40 percent; for count > 0 the percentage
\* is within 0..100.
C9_FulfillmentMath ==
    rpc = "create" =>
        LET count == listConfigs[index + 1].count
            selected == Len(selectedContacts)
        IN  /\ fulfillmentPercentage =
                  IF count > 0 THEN RoundedPercentage(selected, count) ELSE 0
            /\ count > 0 => fulfillmentPercentage \in 0..100
            /\ (/\ count = 100
                /\ Len(primaryContacts) = 60
                /\ Len(secondaryContacts) = 50)
                   => selected = 100 /\ fulfillmentPercentage = 100
            /\ (/\ count = 100
                /\ Len(primaryContacts) = 40
                /\ listConfigs[index + 1].secondaryListId = NoList)
                   => selected = 40 /\ fulfillmentPercentage = 40

-----------------------------------------------------------------------------
(* Properties of processCampaignsWithDelay (SpecRun) *)

\* C1: within one run no identifier is selected by two campaigns: the
\* selections of any two campaigns of the run are disjoint.
C1_SelectionsDisjoint ==
    \A i, j \in 1..Len(selections) :
        i < j => Range(selections[i]) \cap Range(selections[j]) = {}

C1_Witness ==
    /\ rpc = "done"
    /\ Len(selections) = 2
    /\ selections[1] # << >>
    /\ selections[2] # << >>
    /\ Range(selections[2]) \subseteq Range(remote[1])
    /\ Range(selections[1]) \subseteq Range(remote[1])

\* C10: every CreatedList record and every result of a campaign has
\* contactCount <= requestedCount, whatever the count of its config is.
C10_ContactCountWithinRequest ==
    /\ \A i \in 1..Len(createdLists) :
          createdLists[i].contactCount <= createdLists[i].requestedCount
    /\ \A i \in 1..Len(results) :
          results[i].status = "fulfilled" =>
              results[i].value.contactCount <= results[i].value.requestedCount


\* The number of CreatedList records written for the list of the config at
\* index i (from 0).
AuditRecordsOf(i) ==
    Cardinality({ k \in 1..Len(createdLists) :
                     createdLists[k].listId = NewListId(i) })

\* C11: every invocation of processSingleCampaign writes exactly one
\* CreatedList record, with or without a selection and whatever remote call
\* (fetch, list creation, upload, property update) fails; only a failure of
\* the audit store itself is left aside.
C11_OneAuditRecordPerCampaign ==
    \A i \in 1..Len(results) :
        IF results[i].status = "rejected"
        THEN results[i].reason = "CreatedList.create" \/ AuditRecordsOf(i - 1) = 1
        ELSE AuditRecordsOf(i - 1) = 1


-----------------------------------------------------------------------------
(* Properties of the side effects of processSingleCampaign *)

\* C12: with a non-empty selection the upload to the send list, the upload
\* to the new list and the property update are independent: once the list
\* is created, a failure of one of them keeps neither the other two from
\* being attempted nor the audit record from being written.
C12_SideEffectsIndependent ==
    (rpc = "done" /\ selections[1] # << >> /\ createState = "ok")
        => {"send", "new", "properties", "audit"} \subseteq effects


-----------------------------------------------------------------------------
(* Properties of the loop of processCampaignsWithDelay (SpecRun) *)

\* C13: the configs are processed strictly in the given order and the run
\* returns one outcome per config in that order: the config fetched for is
\* the one after the outcomes recorded so far, every outcome is appended for
\* that config, and after a rejected outcome as after a fulfilled one the
\* loop takes the next config until none is left.
C13_OneOutcomePerConfigInOrder ==
    [][ /\ index' = Len(results')
        /\ (rpc = "next" /\ rpc' # rpc) =>
              /\ rpc' = "primary"
              /\ fListId' = listConfigs[index + 1].primaryListId
              /\ results' = results
        /\ results' # results =>
              /\ Len(results') = Len(results) + 1
              /\ SubSeq(results', 1, Len(results)) = results
              /\ results'[Len(results')].status \in {"fulfilled", "rejected"}
              /\ results'[Len(results')].status = "fulfilled" =>
                    results'[Len(results')].value.requestedCount
                        = listConfigs[index + 1].count
              /\ rpc' = IF Len(results') < Len(listConfigs) THEN "next" ELSE "done"
        /\ rpc' = "done" => Len(results') = Len(listConfigs)
        /\ listConfigs' = listConfigs ]_vars

C13_Witness ==
    /\ rpc = "done"
    /\ Len(results) = 2
    /\ results[1].status = "rejected"
    /\ results[2].status = "fulfilled"
    /\ results[2].value.contactCount > 0


-----------------------------------------------------------------------------
(* Properties of the pacing of processCampaignsWithDelay (SpecDelay) *)

\* C14: two successive campaigns start at least INTER_LIST_DELAY_MS apart,
\* after a fulfilled as after a rejected campaign; a campaign that took
\* t < INTER_LIST_DELAY_MS is followed after exactly INTER_LIST_DELAY_MS,
\* one that took t >= INTER_LIST_DELAY_MS is followed at once.
C14_StartsSpaced ==
    \A i \in 1..(Len(starts) - 1) :
        LET gap == starts[i + 1] - starts[i]
            t == ends[i] - starts[i]
        IN  /\ gap >= INTER_LIST_DELAY_MS
            /\ t < INTER_LIST_DELAY_MS => gap = INTER_LIST_DELAY_MS
            /\ t >= INTER_LIST_DELAY_MS => gap = t

C14_Witness ==
    /\ Len(starts) = 2
    /\ results[1].status = "rejected"
    /\ ends[1] - starts[1] \in 1..(INTER_LIST_DELAY_MS - 1)
    /\ starts[2] - starts[1] = INTER_LIST_DELAY_MS


-----------------------------------------------------------------------------
(* Properties of processSingleCampaign on an empty selection (SpecRun) *)

\* C18: when no contact is selected, processSingleCampaign still creates the
\* list remotely, uploads nothing and updates no property, writes the audit
\* record with contactCount 0 and returns a success result: the invocation
\* is rejected only when the request of createHubSpotList or the write of
\* CreatedList.create itself fails.
C18_EmptySelectionStillAudited ==
    [][ /\ (rpc = "create" /\ selectedContacts = << >> /\ rpc' # rpc) =>
              \/ /\ results' = Append(results, [status |-> "rejected",
                                                reason |-> "createHubSpotList"])
                 /\ UNCHANGED << listMembers, uploadVars, propertiesUpdated,
                                 createdLists >>
              \/ /\ rpc' = "audit"
                 /\ newList' = NewListId(index)
                 /\ newList' \notin DOMAIN listMembers
                 /\ newList' \in DOMAIN listMembers'
                 /\ listMembers'[newList'] = {}
                 /\ UNCHANGED << uploadVars, propertiesUpdated, results,
                                 createdLists, selectedContacts >>
        /\ (rpc = "audit" /\ selectedContacts = << >>) =>
              /\ upc = "idle"
              /\ attempted = {}
              /\ listMembers[newList] = {}
              /\ rpc' # rpc =>
                    \/ /\ results' = Append(results, [status |-> "rejected",
                                                      reason |-> "CreatedList.create"])
                       /\ UNCHANGED << listMembers, uploadVars,
                                       propertiesUpdated, createdLists >>
                    \/ /\ Len(results') = Len(results) + 1
                       /\ results'[Len(results')].status = "fulfilled"
                       /\ results'[Len(results')].value.contactCount = 0
                       /\ results'[Len(results')].value.listId = newList
                       /\ Len(createdLists') = Len(createdLists) + 1
                       /\ createdLists'[Len(createdLists')].contactCount = 0
                       /\ createdLists'[Len(createdLists')].listId = newList
                       /\ UNCHANGED << listMembers, uploadVars,
                                       propertiesUpdated >>
      ]_vars

C18_Witness ==
    /\ Len(results) = 1
    /\ listConfigs[1].count > 0
    /\ selections[1] = << >>
    /\ results[1].status = "fulfilled"
    /\ results[1].value.contactCount = 0
    /\ listMembers[results[1].value.listId] = {}
    /\ Len(createdLists) = 1
    /\ createdLists[1].contactCount = 0


-----------------------------------------------------------------------------
(* Properties of the selection of processSingleCampaign (SpecAlloc) *)

\* C19: the selection is the first count elements of the unused primary
\* contacts followed by the unused secondary contacts: a secondary contact is
\* selected only if every unused primary contact is selected too, and for
\* count >= 0 the selection has min(count, primary + secondary) elements.
C19_PrimaryBeforeSecondary ==
    rpc = "create" =>
        LET count == listConfigs[1].count
            all == primaryContacts \o secondaryContacts
        IN  /\ count >= 0 =>
                  /\ Len(selectedContacts) =
                        Min(count, Len(primaryContacts) + Len(secondaryContacts))
                  /\ selectedContacts = SubSeq(all, 1, Len(selectedContacts))
            /\ \A i \in 1..Len(selectedContacts) : selectedContacts[i] = all[i]
            /\ Len(selectedContacts) > Len(primaryContacts) =>
                  SubSeq(selectedContacts, 1, Len(primaryContacts)) = primaryContacts
            /\ Len(selectedContacts) <= Len(primaryContacts) =>
                  selectedContacts = SubSeq(primaryContacts, 1, Len(selectedContacts))

C19_Witness ==
    /\ rpc = "create"
    /\ Len(primaryContacts) > 0
    /\ Len(selectedContacts) = listConfigs[1].count
    /\ Len(selectedContacts) > Len(primaryContacts)
    /\ Len(selectedContacts) < Len(primaryContacts) + Len(secondaryContacts)
    /\ selectedContacts[Len(selectedContacts)] =
          secondaryContacts[Len(selectedContacts) - Len(primaryContacts)]

\* C20: the selection of one invocation holds no contact twice, so that
\* contactCount is the number of distinct contacts selected, also when a
\* contact is a member of the primary and of the secondary list.
C20_SelectionWithoutDuplicates ==
    rpc = "create" =>
        Cardinality(Range(selectedContacts)) = Len(selectedContacts)


-----------------------------------------------------------------------------
(* Properties of the destination name of EmailCloner (SpecName) *)

DaysInMonth(m, y) ==
    IF m = 2
    THEN IF (y % 4 = 0 /\ y % 100 # 0) \/ y % 400 = 0 THEN 29 ELSE 28
    ELSE IF m \in {4, 6, 9, 11} THEN 30 ELSE 31

NextDate(date) ==
    LET m == MonthNumber(date.mon)
    IN  IF date.dd < DaysInMonth(m, date.yyyy)
        THEN [date EXCEPT !.dd = @ + 1]
        ELSE IF m < 12
        THEN [dd |-> 1, mon |-> MonthNames[m + 1], yyyy |-> date.yyyy]
        ELSE [dd |-> 1, mon |-> "Jan", yyyy |-> date.yyyy + 1]

RECURSIVE DatePlus(_, _)
DatePlus(date, d) == IF d = 0 THEN date ELSE DatePlus(NextDate(date), d - 1)

\* C17: the destination name is the source name with its date D replaced by
\* the calendar date D + d of the day offset d, in the same DD MMM YYYY
\* format, across month and year boundaries and for every slot of the day.
C17_NameCarriesDatePlusOffset ==
    newEmailName # NoName =>
        newEmailName =
            [nameArgs.originalEmailName EXCEPT
                !.date = DatePlus(@, nameArgs.day)]


-----------------------------------------------------------------------------
(* Properties of the duplicate layers of EmailCloner (SpecClone) *)

\* the name was found by the query of the store or by the remote search
FoundInLayer(n) ==
    \/ n \in dbDuplicateNames
    \/ (n \in DOMAIN hubspotDuplicates /\ hubspotDuplicates[n])

\* the name at index k is in the cache when the filter comes to it
FoundInCache(k) ==
    \E j \in 1..(k - 1) :
        /\ emailNamesToCheck[j] = emailNamesToCheck[k]
        /\ ~FoundInLayer(emailNamesToCheck[j])

Occurrences(s, x) == Cardinality({ k \in 1..Len(s) : s[k] = x })

Filtered == epc \in {"cloning", "delay", "done"}

\* C15: a destination name found in the store or by the remote search is not
\* cloned in the run and not put into the cache; a name found in the cache is
\* not cloned again; every name found in one of the three layers is counted
\* in duplicatesSkipped.
C15_DuplicatesSkipped ==
    Filtered =>
        /\ \A n \in Range(emailNamesToCheck) :
              FoundInLayer(n) =>
                  /\ n \notin Range(emailsToProcess)
                  /\ n \notin Range(cloneCalls)
                  /\ n \notin processedEmailsCache
        /\ \A k \in 1..Len(emailNamesToCheck) :
              FoundInCache(k) =>
                  /\ Occurrences(emailsToProcess, emailNamesToCheck[k]) = 1
                  /\ Occurrences(cloneCalls, emailNamesToCheck[k]) <= 1
        /\ stats.duplicatesSkipped =
              Cardinality({ k \in 1..Len(emailNamesToCheck) :
                              FoundInLayer(emailNamesToCheck[k]) \/ FoundInCache(k) })
        /\ Len(emailsToProcess) =
              Len(emailNamesToCheck) - stats.duplicatesSkipped

C15_Witness ==
    /\ epc = "done"
    /\ \E n \in Range(emailNamesToCheck) : n \in dbDuplicateNames
    /\ \E n \in Range(emailNamesToCheck) :
          n \notin dbDuplicateNames /\ hubspotDuplicates[n]
    /\ \E k \in 1..Len(emailNamesToCheck) : FoundInCache(k)
    /\ stats.duplicatesSkipped >= 3
    /\ stats.successfullyCloned >= 1

\* C16: in one run every destination name that is in none of the three
\* layers is handed to the clone operation exactly once, also when several
\* (day, source) pairs have that name and the clones run in batches of 3;
\* no name is handed to it twice.
C16_ClonedExactlyOnce ==
    /\ \A n \in Range(emailNamesToCheck) : Occurrences(cloneCalls, n) <= 1
    /\ epc = "done" =>
          \A n \in Range(emailNamesToCheck) :
              ~FoundInLayer(n) => Occurrences(cloneCalls, n) = 1

C16_Witness ==
    /\ epc = "done"
    /\ Len(cloneCalls) > BATCH_SIZE
    /\ \E n \in Range(emailNamesToCheck) :
          /\ Occurrences(emailNamesToCheck, n) = 2
          /\ ~FoundInLayer(n)
          /\ Occurrences(cloneCalls, n) = 1


-----------------------------------------------------------------------------
(* Properties of the fetches of processSingleCampaign (SpecRun, SpecSources) *)

\* C21: a fetch that throws is caught inside processSingleCampaign: no
\* outcome is pushed for it, the campaign goes on to the selection with the
\* contacts of the other list, and a primary fetch that throws does not keep
\* a configured secondary list from being asked for the missing contacts.
C21_FetchFailureContained ==
    [][ /\ (rpc = "primary" /\ fpc = "thrown" /\ rpc' # rpc) =>
              /\ results' = results
              /\ rpc' \in {"secondary", "select"}
              /\ (listConfigs[index + 1].secondaryListId # NoList
                     /\ listConfigs[index + 1].count > 0) => rpc' = "secondary"
        /\ (rpc = "secondary" /\ fpc = "thrown" /\ rpc' # rpc) =>
              /\ results' = results
              /\ rpc' = "select"
              /\ primaryContacts' = primaryContacts
      ]_vars


\* C22: in both copies of processSingleCampaign (SpecSources) the primary
\* fetch is for the primary list and asks for at most max(3 x count, 500)
\* contacts; the secondary list is asked only when it is configured and
\* fewer unused primary contacts than count were found, and then for at most
\* max(3 x (count - unused primary), 500) contacts; when the primary
\* contacts suffice, or no secondary list is configured, the selection
\* follows with no request to the secondary list. No page request of a
\* fetch asks for more than is left of that number after the contacts
\* already received.
C22_SecondaryOnlyOnShortfall ==
    [][ LET cfg == listConfigs[index + 1]
            short == cfg.count - Len(primaryContacts')
        IN  /\ (rpc \in {"next", "next2"} /\ rpc' # rpc) =>
                  /\ rpc' = IF rpc = "next" THEN "primary" ELSE "primary2"
                  /\ fListId' = cfg.primaryListId
                  /\ maxCount' <= Max(3 * cfg.count, 500)
            /\ (rpc \in {"primary", "primary2"}
                  /\ rpc' \in {"secondary", "secondary2"}) =>
                  /\ cfg.secondaryListId # NoList
                  /\ short > 0
                  /\ fListId' = cfg.secondaryListId
                  /\ requestLog' = << >>
                  /\ maxCount' <= Max(3 * short, 500)
            /\ (rpc \in {"primary", "primary2"} /\ rpc' # rpc
                  /\ (short <= 0 \/ cfg.secondaryListId = NoList)) =>
                  /\ rpc' = IF rpc = "primary" THEN "select" ELSE "select2"
                  /\ fpc' = "idle"
                  /\ secondaryBeforeFilter' = 0
            /\ (rpc' \in {"primary", "primary2"}) =>
                  fListId' = cfg.primaryListId
            /\ (rpc' \notin {"primary", "primary2", "secondary", "secondary2"}) =>
                  requestLog' = << >>
            /\ \A k \in 1..Len(requestLog') :
                  requestLog'[k].count + requestLog'[k].vidOffset <= maxCount'
      ]_vars

\* the first copy asks the secondary list for three times a shortfall of
\* more than 166 contacts, after a primary fetch that found a used contact
C22_Witness ==
    /\ rpc = "secondary"
    /\ primaryBeforeFilter > Len(primaryContacts)
    /\ Len(primaryContacts) > 0
    /\ maxCount = 3 * (listConfigs[1].count - Len(primaryContacts))
    /\ maxCount > 500
    /\ Len(requestLog) > 0
    /\ requestLog[1].count + requestLog[1].vidOffset <= maxCount


-----------------------------------------------------------------------------
(* Properties of the result of getContactsFromList (SpecFetch) *)

FirstIndex(s, x) == CHOOSE i \in 1..Len(s) : s[i] = x /\ \A j \in 1..(i - 1) : s[j] # x

\* C23: the sequence getContactsFromList returns holds no vid twice and
\* lists the vids collected from the pages in the order of their first
\* occurrence, also when it is the partial result returned after errors.
C23_ResultDeduplicated ==
    fpc = "returned" =>
        /\ \A i, j \in 1..Len(fetchResult) :
              i # j => fetchResult[i] # fetchResult[j]
        /\ Range(fetchResult) = Range(allContacts)
        /\ \A i, j \in 1..Len(fetchResult) :
              i < j => FirstIndex(allContacts, fetchResult[i])
                          < FirstIndex(allContacts, fetchResult[j])

C23_Witness ==
    /\ fpc = "returned"
    /\ consecutiveErrors >= MAX_RETRIES
    /\ okPages >= 1
    /\ Len(allContacts) > Len(fetchResult)
    /\ fetchResult = << allContacts[1] >>


-----------------------------------------------------------------------------
(* Properties of updateContactProperties (SpecProps) *)

CeilDiv(n, d) == (n + d - 1) \div d

\* C24: updateContactProperties sends one batch request per chunk of at
\* most 100 contacts, ceil(n / 100) requests in all with every contact in
\* exactly one of them, and none twice; a request that fails neither stops
\* the loop nor makes the function throw.
C24_OneRequestPerChunk ==
    /\ ppc \in {"idle", "loop", "returned"}
    /\ Len(propRequests) = propIndex
    /\ \A k \in 1..Len(propRequests) :
          /\ Len(propRequests[k].chunk) \in 1..PROPERTY_BATCH_SIZE
          /\ propRequests[k].chunk =
                SubSeq(contactIds, ((k - 1) * PROPERTY_BATCH_SIZE) + 1,
                       Min(k * PROPERTY_BATCH_SIZE, Len(contactIds)))
    /\ propertiesUpdated =
          UNION { Range(propRequests[k].chunk) :
                    k \in { j \in 1..Len(propRequests) : propRequests[j].ok } }
    /\ ppc = "returned" =>
          /\ Len(propRequests) = CeilDiv(Len(contactIds), PROPERTY_BATCH_SIZE)
          /\ Flatten([ k \in 1..Len(propRequests) |-> propRequests[k].chunk ])
                = contactIds

C24_Witness ==
    /\ ppc = "returned"
    /\ Len(contactIds) = (2 * PROPERTY_BATCH_SIZE) + 1
    /\ Len(propRequests) = 3
    /\ ~propRequests[1].ok
    /\ propRequests[2].ok
    /\ propRequests[3].ok
    /\ propertiesUpdated = (PROPERTY_BATCH_SIZE + 1)..Len(contactIds)


-----------------------------------------------------------------------------
(* Requests of addContactsToList (SpecUpload) *)

RequestsOf(c) == { k \in 1..Len(addRequests) : addRequests[k].chunk = c }

\* C25: addContactsToList sends every chunk it has dealt with at least once
\* and at most MAX_RETRIES times; an accepted request is the last one for
\* its chunk, a chunk left without acceptance has had exactly MAX_RETRIES
\* requests, the chunks are sent in order, and the requests of a call number
\* at most MAX_RETRIES times the chunks.
C25_RequestsPerChunk ==
    /\ \A k \in 1..Len(addRequests) :
          /\ addRequests[k].chunk \in 0..(Len(chunks) - 1)
          /\ k > 1 => addRequests[k - 1].chunk <= addRequests[k].chunk
          /\ addRequests[k].ok =>
                \A j \in RequestsOf(addRequests[k].chunk) : j <= k
    /\ \A c \in 0..(Len(chunks) - 1) :
          /\ Cardinality(RequestsOf(c)) <= MAX_RETRIES
          /\ c < chunkIndex =>
                /\ Cardinality(RequestsOf(c)) >= 1
                /\ \/ \E k \in RequestsOf(c) : addRequests[k].ok
                   \/ Cardinality(RequestsOf(c)) = MAX_RETRIES
          /\ c > chunkIndex => RequestsOf(c) = {}
    /\ Len(addRequests) <= MAX_RETRIES * Len(chunks)

C25_Witness ==
    /\ upc = "returned"
    /\ Len(chunks) = 3
    /\ Len(addRequests) = 7
    /\ ~addRequests[1].ok /\ ~addRequests[2].ok /\ addRequests[3].ok
    /\ addRequests[3].chunk = 0
    /\ RequestsOf(1) = {4, 5, 6}
    /\ \A k \in 4..6 : ~addRequests[k].ok
    /\ addRequests[7] = [chunk |-> 2, ok |-> TRUE]


-----------------------------------------------------------------------------
(* Slots of EmailCloner (SpecName) *)

\* C26: the minute of every slot computed, whatever the strategy, the
\* custom options and the number of emails ahead in the day, lies between
\* 0 and 59.
C26_MinuteInRange ==
    scheduled # NoName => scheduled.minute \in 0..59


-----------------------------------------------------------------------------
(* The calls of cloneAndScheduleEmailOptimized (SpecClone) *)

\* the calls of the batch that BatchDone counts
BatchCalls == (ei + 1)..Min(ei + BATCH_SIZE, Len(emailsToProcess))

\* a call of the batch that ended in this step
EndedCalls == pending \ pending'

\* how many clones of the name are at HubSpot, renamed or not
ClonesOf(clones, n) ==
    CopiesIn([emailName |-> n, renamed |-> TRUE], clones)
       + CopiesIn([emailName |-> n, renamed |-> FALSE], clones)

\* no clone at HubSpot is taken back and no renamed clone loses its name
ClonesKept ==
    \A c \in BagToSet(remoteClones) :
       /\ ClonesOf(remoteClones', c.emailName)
             >= ClonesOf(remoteClones, c.emailName)
       /\ CopiesIn([emailName |-> c.emailName, renamed |-> TRUE], remoteClones')
             >= CopiesIn([emailName |-> c.emailName, renamed |-> TRUE],
                         remoteClones)

\* C29: a call whose clone was made and renamed while the save of its
\* record failed returns success; its pair is added to successfullyCloned
\* and not to errors, and no clone or email at HubSpot is taken back.
C29_UnsavedCloneSucceeds ==
    [][ /\ \A j \in IF epc = "cloning" THEN EndedCalls ELSE {} :
              LET n == emailsToProcess[j]
              IN  (BagIn([emailName |-> n, renamed |-> TRUE], remoteClones')
                      /\ n \notin store') =>
                     /\ batchResults'[j] = [success |-> TRUE, emailName |-> n]
                     /\ n \in remoteNames'
        /\ (epc = "cloning" /\ epc' # epc) =>
              LET renamed == { j \in BatchCalls :
                                 BagIn([emailName |-> emailsToProcess[j],
                                        renamed |-> TRUE], remoteClones) }
              IN  /\ stats'.successfullyCloned =
                        stats.successfullyCloned + Cardinality(renamed)
                  /\ stats'.errors =
                        stats.errors + Cardinality(BatchCalls \ renamed)
                  /\ \A j \in renamed :
                        emailsToProcess[j] \in Range(stats'.clonedEmails)
        /\ ClonesKept
        /\ remoteNames \subseteq remoteNames' ]_vars

C29_Witness ==
    /\ epc = "done"
    /\ stats.errors = 0
    /\ stats.successfullyCloned = 2
    /\ \E c \in BagToSet(remoteClones) :
          /\ c.renamed
          /\ c.emailName \notin store
          /\ c.emailName \in remoteNames
          /\ c.emailName \in Range(stats.clonedEmails)

\* every clone at HubSpot stays there
ClonesStay ==
    \A c \in BagToSet(remoteClones) :
       ClonesOf(remoteClones', c.emailName) >= ClonesOf(remoteClones, c.emailName)

\* C30: a ClonedEmail record is written only in a call whose clone was made
\* and renamed; a call whose clone was made while its update failed writes
\* no record and returns a failure, which is counted in errors, and the
\* clone stays at HubSpot.
C30_RecordOnlyAfterUpdate ==
    [][ /\ \A n \in store' \ store :
              /\ BagIn([emailName |-> n, renamed |-> TRUE], remoteClones')
              /\ n \in remoteNames'
        /\ \A j \in IF epc = "cloning" THEN EndedCalls ELSE {} :
              LET n == emailsToProcess[j]
              IN  BagIn([emailName |-> n, renamed |-> FALSE], remoteClones') =>
                     /\ n \notin store'
                     /\ ~batchResults'[j].success
        /\ (epc = "cloning" /\ epc' # epc) =>
              stats'.errors >=
                 stats.errors +
                 Cardinality({ j \in BatchCalls :
                                 BagIn([emailName |-> emailsToProcess[j],
                                        renamed |-> FALSE], remoteClones) })
        /\ ClonesStay ]_vars

C30_Witness ==
    /\ epc = "done"
    /\ stats.errors = 1
    /\ stats.successfullyCloned = 1
    /\ \E c \in BagToSet(remoteClones) :
          /\ ~c.renamed
          /\ c.emailName \notin store
          /\ c.emailName \notin Range(stats.clonedEmails)
    /\ \E c \in BagToSet(remoteClones) : c.renamed /\ c.emailName \in store


-----------------------------------------------------------------------------
(* EmailCloner of src/routes/cloner.js (SpecSerial) *)

\* C27: with the smart strategy the email at index i of a day is scheduled
\* at 11:00 plus 5 i minutes when i < 12 and at 16:00 plus 5 (i - 12)
\* minutes from index 12 on, on every day.
C27_SmartSlots ==
    \A r \in Requests :
       (reqs[r].lastCall # NoName /\ reqs[r].frame.strategy = "smart") =>
           (reqs[r].lastCall.hour * 60) + reqs[r].lastCall.minute =
               IF reqs[r].lastCall.i < MAX_MORNING_SLOTS
               THEN (11 * 60) + (5 * reqs[r].lastCall.i)
               ELSE (16 * 60)
                       + (5 * (reqs[r].lastCall.i - MAX_MORNING_SLOTS))

\* C28: the pair of a source email whose name carries no date is counted
\* once in totalAttempted and once in errors, not in duplicatesSkipped, and
\* nothing is cloned for it.
C28_UndatedCountedAsError ==
    [][ \A r \in Requests :
           /\ (reqs'[r].lastCall # reqs[r].lastCall
                  /\ reqs'[r].lastCall.result = NoName) =>
                 reqs'[r].stats.totalAttempted
                    = reqs[r].stats.totalAttempted + 1
           /\ (reqs[r].pc = "call" /\ reqs'[r] # reqs[r]
                  /\ reqs[r].lastCall.originalEmailId \in undated) =>
                 /\ reqs'[r].stats.totalAttempted = reqs[r].stats.totalAttempted
                 /\ remoteClones' = remoteClones
                 /\ reqs'[r].pc = "pause" =>
                       /\ reqs'[r].stats.errors = reqs[r].stats.errors + 1
                       /\ reqs'[r].stats.duplicatesSkipped
                             = reqs[r].stats.duplicatesSkipped
                       /\ reqs'[r].stats.successfullyCloned
                             = reqs[r].stats.successfullyCloned
           /\ (reqs[r].pc = "pause" /\ reqs'[r].pc = "call") =>
                 reqs'[r].lastCall.originalEmailId
                       # reqs[r].lastCall.originalEmailId
                    \/ reqs'[r].lastCall.dayOffset
                          # reqs[r].lastCall.dayOffset ]_vars


-----------------------------------------------------------------------------
(* Requests in flight during EmailCloner (SpecFlight) *)

\* the calls begun so far whose clone was made and renamed
ClonedCalls ==
    { k \in 1..Len(cloneCalls) :
        BagIn([emailName |-> cloneCalls[k], renamed |-> TRUE], remoteClones) }

\* the errors counted before the first clone: names that could not be read
\* and pairs without a destination name
ErrorsBeforeCloning ==
    (Len(emailIds) - Cardinality(DOMAIN emailInfoMap))
       + GenDays(emailIds, emailInfoMap, "smart", cloningCount).errors

\* C31: at most BATCH_SIZE clones and at most CHECK_BATCH_SIZE lookups are
\* in flight; a group of clones starts only when no clone is in flight,
\* every lookup has been answered and the results of all earlier clones are
\* in the stats; a group of lookups starts only when the answers of the
\* groups before it are all in.
C31_GroupsInFlight ==
    [][ /\ Cardinality(pending') <= BATCH_SIZE
        /\ Cardinality(lookups') <= CHECK_BATCH_SIZE
        /\ pending' # {} => lookups' = {}
        /\ Len(cloneCalls') > Len(cloneCalls) =>
              /\ pending = {}
              /\ lookups = {}
              /\ DOMAIN lookupLog = 1..Len(emailNamesToCheck)
              /\ stats.successfullyCloned = Cardinality(ClonedCalls)
              /\ stats.errors =
                    ErrorsBeforeCloning
                       + (Len(cloneCalls) - Cardinality(ClonedCalls))
        /\ (lookups = {} /\ lookups' # {}) =>
              /\ DOMAIN lookupLog = 1..ei
              /\ cloneCalls = << >> ]_vars

C31_Witness ==
    /\ epc = "cloning"
    /\ Len(emailNamesToCheck) = 6
    /\ Cardinality(DOMAIN lookupLog) = 6
    /\ Len(cloneCalls) = 4
    /\ pending # {}
    /\ stats.successfullyCloned = 2
    /\ stats.errors = 1


-----------------------------------------------------------------------------
(* Properties of DELETE /cloned-emails/:id (SpecDelete) *)

\* C32: for a record that exists and has a remote id the remote deletion is
\* attempted first and, whether it succeeded or not, the deletion of the
\* record comes next; the record of a request answered 200 is gone and
\* hubspotDeleted tells whether the remote deletion succeeded. A request
\* for an id without a record is answered 404 (500 when the query itself
\* fails) with no remote call and no change of the store.
C32_DeleteRemoteThenStore ==
    [][ /\ (delReq.pc = "remote" /\ delReq' # delReq) =>
              /\ delReq'.pc = "store"
              /\ auditRecords' = auditRecords
              /\ delLog'[Len(delLog')] =
                    [op |-> "remoteDelete", id |-> delReq.id,
                     ok |-> delReq'.hubspotDeleted]
              /\ delReq'.hubspotDeleted =>
                    auditRecords[delReq.id] \notin hubspotEmails'
        /\ auditRecords' # auditRecords =>
              /\ delReq.pc = "store"
              /\ DOMAIN auditRecords' = DOMAIN auditRecords \ {delReq.id}
              /\ \A r \in DOMAIN auditRecords' : auditRecords'[r] = auditRecords[r]
              /\ delReq'.pc = "answered"
              /\ delReq'.status = 200
              /\ delReq'.hubspotDeleted = delReq.hubspotDeleted
              /\ hubspotEmails' = hubspotEmails
              /\ IF auditRecords[delReq.id] # 0
                 THEN delLog[Len(delLog)] =
                         [op |-> "remoteDelete", id |-> delReq.id,
                          ok |-> delReq.hubspotDeleted]
                 ELSE /\ delLog[Len(delLog)].op = "request"
                      /\ ~delReq.hubspotDeleted
        /\ (delReq.pc = "find" /\ delReq' # delReq
               /\ delReq.id \notin DOMAIN auditRecords) =>
              /\ delReq'.pc = "answered"
              /\ delReq'.status \in {404, 500}
              /\ UNCHANGED << auditRecords, hubspotEmails, delLog >>
        /\ (delReq.pc = "find" /\ delReq' # delReq
               /\ delReq.id \in DOMAIN auditRecords) =>
              \/ delReq'.pc = IF auditRecords[delReq.id] # 0
                              THEN "remote" ELSE "store"
              \/ delReq'.pc = "answered" /\ delReq'.status = 500
        /\ hubspotEmails' # hubspotEmails => delReq.pc = "remote" ]_vars

C32_Witness ==
    /\ delReq.pc = "answered"
    /\ delReq.status = 200
    /\ ~delReq.hubspotDeleted
    /\ delReq.hubspotError
    /\ delReq.id \notin DOMAIN auditRecords
    /\ RemoteIdOf(delReq.id) \in hubspotEmails
    /\ Len(delLog) = 4
    /\ delLog[1].op = "request"
    /\ delLog[1].id = MaxRecords + 1
    /\ delLog[2].op = "request"
    /\ delLog[3] = [op |-> "remoteDelete", id |-> delReq.id, ok |-> FALSE]


-----------------------------------------------------------------------------
(* The stats of a run of EmailCloner (SpecClone) *)

\* C33: when a run ends with success, totalAttempted is the sum of
\* successfullyCloned, duplicatesSkipped and errors, and it is cloningCount
\* times the number of email ids.
C33_StatsAddUp ==
    epc = "done" =>
       /\ stats.successfullyCloned + stats.duplicatesSkipped + stats.errors
             = stats.totalAttempted
       /\ stats.totalAttempted = cloningCount * Len(emailIds)


-----------------------------------------------------------------------------
(* The slots of one day (SpecName) *)

\* minutes since midnight of a slot
MinuteOfDay(slot) == (slot.hour * 60) + slot.minute

\* C34: the slot of an email is later than the slot of the email before it
\* on the same day, and with "custom" the first email of a day has the
\* configured start hour and minute.
C34_SlotsIncrease ==
    scheduled # NoName =>
       /\ nameArgs.slot > 0 =>
             MinuteOfDay(Slot(nameArgs.strategy, nameArgs.opts,
                              CountersAfter(nameArgs.strategy,
                                            nameArgs.slot - 1)))
                < MinuteOfDay(scheduled)
       /\ (nameArgs.strategy = "custom" /\ nameArgs.slot = 0) =>
             scheduled = [hour |-> OrDefault(nameArgs.opts.customStartHour, 11),
                          minute |-> OrDefault(nameArgs.opts.customStartMinute, 0)]


-----------------------------------------------------------------------------
(* The used contacts of a run (SpecRun) *)

\* C35: no step of a run takes a contact out of usedContacts; the selection
\* of every campaign, rejected ones included, stays in it; and the contacts a
\* campaign keeps of a fetched list are none of the used ones.
C35_UsedOnlyGrows ==
    [][ /\ usedContacts \subseteq usedContacts'
        /\ \A i \in DOMAIN selections' :
              Range(selections'[i]) \subseteq usedContacts'
        /\ rpc' = "select" =>
              /\ Range(primaryContacts') \cap usedContacts' = {}
              /\ Range(secondaryContacts') \cap usedContacts' = {}
        /\ (rpc = "select" /\ rpc' # "select") =>
              Range(selectedContacts') \cap usedContacts = {} ]_vars

\* a campaign with a selection was rejected, a contact of that selection is
\* in no created list, it is still used and a later campaign has selected
C35_Witness ==
    \E i \in DOMAIN results :
       /\ results[i].status = "rejected"
       /\ Len(selections) > i
       /\ selections[i + 1] # << >>
       /\ \E c \in Range(selections[i]) :
             /\ c \in usedContacts
             /\ \A l \in DOMAIN listMembers : c \notin listMembers[l]


-----------------------------------------------------------------------------
(* Failed lookups (SpecFlight) *)

\* the index of the last lookup of name n
LastLookup(names, n) ==
    CHOOSE k \in 1..Len(names) :
       /\ names[k] = n
       /\ \A j \in 1..Len(names) : names[j] = n => j <= k

\* C36: when the filter runs, a name whose lookup failed counts as not
\* existing at HubSpot, every other name counts as existing exactly when
\* HubSpot holds it, and a name that counts as not existing is taken for
\* cloning unless the store or the cache holds it.
C36_FailedLookupMeansAbsent ==
    [][ (epc = "check" /\ epc' \in {"cloning", "done"}) =>
           \A n \in Range(emailNamesToCheck) :
              LET k == LastLookup(emailNamesToCheck, n)
              IN  /\ lookupLog[k] = "failed" => ~hubspotDuplicates[n]
                  /\ lookupLog[k] = "ok" =>
                        hubspotDuplicates[n] = (n \in remoteNames)
                  /\ ( /\ ~hubspotDuplicates[n]
                       /\ n \notin dbDuplicateNames
                       /\ n \notin processedEmailsCache )
                        => n \in Range(emailsToProcess')
                  /\ n \in dbDuplicateNames => n \notin Range(emailsToProcess')
      ]_vars

\* the lookup of a name failed and the name is taken for cloning, while the
\* lookup of another name of the same group answered that HubSpot holds it
C36_Witness ==
    /\ epc = "cloning"
    /\ \E k, j \in DOMAIN lookupLog :
          /\ lookupLog[k] = "failed"
          /\ emailNamesToCheck[k] \in Range(emailsToProcess)
          /\ lookupLog[j] = "ok"
          /\ emailNamesToCheck[j] # emailNamesToCheck[k]
          /\ hubspotDuplicates[emailNamesToCheck[j]]
          /\ emailNamesToCheck[j] \notin Range(emailsToProcess)


-----------------------------------------------------------------------------
(* The same request served twice (SpecTwice) *)

\* the first run returned its stats and every clone it asked for was made,
\* renamed and saved
FirstRunSucceeded ==
    /\ Len(served) = 1
    /\ served[1].returned
    /\ served[1].calls \subseteq served[1].saved

\* C37, as stated: after a first run in which every clone, update and audit
\* save succeeded, the second run asks for no clone and counts every
\* (day, email) pair as a duplicate.
C37_SecondRunClonesNothing ==
    FirstRunSucceeded =>
       /\ cloneCalls = << >>
       /\ epc = "done" =>
             stats.duplicatesSkipped = cloningCount * Len(emailIds)

\* the destination names the first run cloned and saved a record of
ClonedAndSaved == served[1].calls \cap served[1].saved

\* the clones the runs have made for the destination name n
ClonesMadeFor(n) ==
    CopiesIn([emailName |-> n, renamed |-> TRUE], remoteClones)
       + CopiesIn([emailName |-> n, renamed |-> FALSE], remoteClones)

\* C37, amended: a destination name that the first run cloned and saved is
\* not cloned again by the second run, whatever fails in either run: the
\* second run asks for no clone of it, HubSpot holds the one clone the first
\* run made of it, and once the second run has filtered its names each pair
\* with such a name is counted as a duplicate and left out of the names to
\* process.
C37_SavedNamesNotClonedAgain ==
    Len(served) = 1 =>
       /\ \A n \in ClonedAndSaved :
             /\ n \notin Range(cloneCalls)
             /\ ClonesMadeFor(n) = 1
       /\ epc \in {"cloning", "delay", "done"} =>
             /\ \A n \in ClonedAndSaved : n \notin Range(emailsToProcess)
             /\ stats.duplicatesSkipped >=
                   Cardinality({ k \in 1..Len(emailNamesToCheck) :
                                   emailNamesToCheck[k] \in ClonedAndSaved })

\* the first run missed the name of an email and cloned and saved another;
\* the second run, in which a request failed, has skipped the saved name
\* and cloned a name the first run had not cloned
C37_Witness ==
    /\ Len(served) = 1
    /\ served[1].returned
    /\ served[1].fetched # Range(emailIds)
    /\ epc = "done"
    /\ cloneFaults > 0
    /\ \E n \in Range(emailNamesToCheck) :
          /\ n \in ClonedAndSaved
          /\ n \notin Range(cloneCalls)
    /\ \E n \in Range(cloneCalls) : n \notin served[1].calls
    /\ stats.duplicatesSkipped >= 1
    /\ stats.successfullyCloned >= 1


-----------------------------------------------------------------------------
(* The retries of getContactsFromList (SpecRetry) *)

\* the last n requests of the log failed, all with the cursor off
FailedInARow(log, n, off) ==
    /\ Len(log) >= n
    /\ \A i \in (Len(log) - n + 1)..Len(log) :
          log[i].message # "ok" /\ log[i].vidOffset = off

\* C38: an answered page sets the error counter to 0; a call ends on a
\* failed request only when the last MAX_RETRIES requests failed; and every
\* request carries the cursor the last answered page gave, which a failed
\* request leaves as it is.
C38_ConsecutiveFailuresOnly ==
    [][ /\ okPages' = okPages + 1 => consecutiveErrors' = 0
        /\ ( /\ fpc \in {"loop", "loop2"}
             /\ fpc' \notin {"loop", "loop2"}
             /\ okPages' = okPages )
              => /\ consecutiveErrors' = MAX_RETRIES
                 /\ FailedInARow(requestLog', MAX_RETRIES, offset)
        /\ ( /\ fpc \in {"loop", "loop2"}
             /\ Len(requestLog') = Len(requestLog) + 1 )
              => /\ requestLog'[Len(requestLog')].vidOffset = offset
                 /\ offset = Len(allContacts)
                 /\ requestLog'[Len(requestLog')].message # "ok"
                       => /\ offset' = offset
                          /\ consecutiveErrors' = consecutiveErrors + 1
                          /\ FailedInARow(requestLog', consecutiveErrors', offset)
                 /\ requestLog'[Len(requestLog')].message = "ok"
                       => offset' = offset + Len(PageOf(remote[fListId],
                                         requestLog'[Len(requestLog')].count,
                                         offset).contacts)
      ]_vars

\* a call that met MAX_RETRIES failures and more, never MAX_RETRIES of them
\* in a row, has fetched every page once and returned the whole list
C38_Witness ==
    /\ fpc \in {"returned", "returned2"}
    /\ Cardinality({ i \in DOMAIN requestLog : requestLog[i].message # "ok" })
          > MAX_RETRIES
    /\ okPages >= 2
    /\ fetchResult = remote[fListId]
    /\ consecutiveErrors = 0


-----------------------------------------------------------------------------
(* Two requests served together (SpecOverlap) *)

\* how many clones named n have been made at HubSpot
ClonesNamed(n) == Cardinality({ i \in DOMAIN cloneCalls : cloneCalls[i] = n })

\* C39: of a destination name both requests compute, at most one clone is
\* made at HubSpot.
C39_ClonedAtMostOnce ==
    \A n \in Range(reqs[1].names) \cap Range(reqs[2].names) : ClonesNamed(n) <= 1

=============================================================================
